---- MODULE Spec2Model ----
(***************************************************************************)
(* State-machine model of the webdriver client library: the driver process *)
(* supervisors (ChromeDriver in its two source versions, FirefoxDriver),   *)
(* the readiness probe, and the HTTP+JSON transport with its error         *)
(* classifier.                                                             *)
(***************************************************************************)
EXTENDS Integers, Sequences, FiniteSets, TLC

(***************************************************************************)
(* Bounds of the model.                                                    *)
(***************************************************************************)
\* Start() calls (per behaviour) that get as far as building a child command.
MaxStarts == 2
\* d.StartTimeout in poll intervals (the code's default is 20 s, 1 s interval).
StartTimeout == 1
\* d.LockPortTimeout in poll intervals (the code's default is 60 s).
LockPortTimeout == 1
\* Chunks of output the children write to their pipes, all together.
MaxOutput == 1
\* Exclusive upper end of the firefox port scan, as an offset from 7055
\* (the code scans up to 65535).
ScanWidth == 2

(***************************************************************************)
(* Program constants.                                                      *)
(***************************************************************************)
ChromePort == 9515
FirefoxBasePort == 7055
LockPort == FirefoxBasePort - 1
\* A port a caller may set in FirefoxDriver.Port instead of 0.
FixedPort == FirefoxBasePort + 1

Insts == {1, 2}
Nil == 0
External == -1
Free == 0

ScanPorts == FirefoxBasePort .. (FirefoxBasePort + ScanWidth - 1)
AllPorts == {ChromePort} \cup ScanPorts \cup {FixedPort}
Ids == 1 .. MaxStarts

ErrNil == <<>>
Err(prefix, msg) == <<prefix, msg>>
csferr == "chromedriver start failed: "
cpferr == "create profile failed: "
ErrChromeRunning == Err(csferr, "chromedriver already running")
ErrChromeLogPath == Err(csferr, "unable to write in log path: <os error>")
ErrChromeLaunch == Err(csferr, "<exec error>")
ErrOpenLogFile == Err("", "<open log file error>")
ErrProbeTimeout == Err("", "start failed: timeout expired")
ErrConnClose == Err("", "<conn close error>")
ErrChromeNotRunning == Err("", "stop failed: chromedriver not running")
ErrFirefoxNotRunning == Err("", "stop failed: firefoxdriver not running")
ErrLockTimeout == Err("", "timeout expired trying to lock mutex port")
ErrScanClose == Err("", "<listener close error>")
ErrFirefoxLaunch == Err("unable to start firefox: ", "<exec error>")
weferr == "write extension failed: "
\* The ways createTempProfile fails in a Start(): in ioutil.TempDir, before
\* there is a directory; in a later step of its own; in writeExtensionFile
\* with that function's prefix; in the os.Mkdir of writeExtensionFile, whose
\* error is passed on as it is.
ProfileFailures == {"fail_early", "fail_late", "fail_entry", "fail_entry_mkdir"}

\* The error of createTempProfile, as FirefoxDriver.Start passes it on
\* (`if err != nil { return err }`); CreateTempProfile has every step.
ProfileErr(prof) ==
    CASE prof = "fail_early" -> Err(cpferr, "<TempDir error>")
      [] prof = "fail_late" -> Err(cpferr, "<mkdir error>")
      [] prof = "fail_entry" -> Err(weferr, "<open file error>")
      [] prof = "fail_entry_mkdir" -> Err("", "<mkdir error>")
      [] OTHER -> ErrNil

ProfileErrors == {ProfileErr(prof) : prof \in ProfileFailures}

NoUrl == <<>>
ChromeUrl(port) == <<"http://127.0.0.1:", port, "">>
FirefoxUrl(port) == <<"http://127.0.0.1:", port, "/hub">>

VARIABLES
    target,       \* which driver the program uses: "chrome", "chrome_rb", "firefox"
    cfg,          \* the driver's public configuration fields
    Port,         \* d.Port of each driver instance
    url,          \* d.url (WebDriverCore.url) of each instance
    cmd,          \* d.cmd: Nil or the id of an exec.Cmd
    logFile,      \* d.logFile: Nil or the id of an os.File
    profilePath,  \* d.profilePath: Nil ("") or the id of a profile directory
    pc,           \* where each instance's Start() call stands
    elapsed,      \* completed sleeps of the retry loop a Start() call is in
    call,         \* what the current or last call on each instance did
    procs,        \* the state of every exec.Cmd built so far
    files,        \* the state of every log file handle opened so far
    dirs,         \* the profile directories made so far: on disk or not, and
                  \* the port their user.js holds
    lockHolder,   \* who listens on 127.0.0.1:7054
    bound,        \* who listens on each port
    starts,       \* ids handed out so far
    crashed,      \* the program died of a nil dereference
    active,       \* the driver instances the program has constructed
    tasks         \* the two io.Copy goroutines of every child and the pipes
                  \* they read: chunks the child wrote, chunks read, chunks
                  \* that reached the destination, and whether io.Copy returned

driverVars == <<target, active, cfg, Port, url, cmd, logFile, profilePath, pc, elapsed,
                call, procs, files, dirs, lockHolder, bound, starts, crashed, tasks>>

VARIABLES
    followsAll,   \* whether http.Client.Do itself follows a 302/303 answer to a
                  \* request that is not a GET (it does not in the library the
                  \* code was written for, it does in later ones)
    locationRequired, \* whether http.Client.Do returns an error for a redirect
                  \* it would follow that has no Location header (it does up
                  \* to Go 1.17, later it hands the response back)
    tpc,          \* "idle", "wait" (a request is on the wire) or "done"
    method,       \* the method of the doInternal call that is waiting
    depth,        \* how many times doInternal has called itself
    hops,         \* requests the current http.Client.Do call has sent
    sent,         \* the requests of the current do() call, in order
    first,        \* the server's answer to the first request of the call
    last,         \* the server's answer to the latest request of the call
    decoded,      \* the response whose body doInternal decoded
    result        \* what do() returned: session id, value, error

transportVars == <<followsAll, locationRequired, tpc, method, depth, hops, sent, first, last, decoded, result>>

VARIABLES
    commandError, \* the CommandError that Error() was last called on
    errorText,    \* the text that call of Error() returned
    prefs,        \* the preference map given to createTempProfile
    fuser,        \* the text createTempProfile wrote to user.js
    profileErr,   \* the error createTempProfile returned
    xpi,          \* the extension archive given to createTempProfile, and the
                  \* operating-system fault its call met
    profileStage, \* the step at which createTempProfile returned
    profileRet,   \* the path createTempProfile returned
    extracted     \* the archive entries written below the extension directory

VARIABLES
    session,      \* the Session NewSession returned to the caller
    handles,      \* the WindowHandle and WebElement values the caller was given
    caller,       \* the library function whose do() call is under way
    pathId        \* the session id that call put in the URL of its request

sessionVars == <<session, handles, caller, pathId>>

pureVars == <<commandError, errorText, prefs, fuser, profileErr, xpi, profileStage,
              profileRet, extracted, sessionVars>>

vars == <<driverVars, transportVars, pureVars>>

ActiveInsts == active

NoCall == [op |-> "none", returned |-> TRUE, err |-> ErrNil, launched |-> Nil,
           profile |-> Nil, connected |-> FALSE, locked |-> FALSE, waited |-> 0,
           signalled |-> Nil, closed |-> Nil, removed |-> Nil, probed |-> Nil]

NewCall(op) == [NoCall EXCEPT !.op = op, !.returned = FALSE]

Return(c, e) == [c EXCEPT !.returned = TRUE, !.err = e]

\* The transport at rest: no do() call made yet.
NoResponse == <<>>
NoResult == [sid |-> <<>>, value |-> <<"nil">>, err |-> <<"none">>]
TransportIdle ==
    /\ tpc = "idle"
    /\ method = ""
    /\ depth = 0
    /\ hops = 0
    /\ sent = <<>>
    /\ first = NoResponse
    /\ last = NoResponse
    /\ decoded = NoResponse
    /\ result = NoResult

\* No Session returned yet.
NoSession == <<>>

\* No call of Error() and no call of createTempProfile made yet.
NoText == <<>>
NoPrefs == <<>>
PureIdle ==
    /\ commandError = <<>>
    /\ errorText = NoText
    /\ prefs = NoPrefs
    /\ fuser = NoText
    /\ profileErr = ErrNil
    /\ xpi = <<>>
    /\ profileStage = "none"
    /\ profileRet = ""
    /\ extracted = <<>>
    /\ session = NoSession
    /\ handles = {}
    /\ caller = "none"
    /\ pathId = <<>>

NoProc == [state |-> "none", port |-> Nil]

\* The child's stdout and stderr, each with a pipe and an io.Copy goroutine.
Streams == {"stdout", "stderr"}
NoTask == [out |-> 0, read |-> 0, written |-> 0, ended |-> FALSE]
NoTasks == [k \in Ids |-> [s \in Streams |-> NoTask]]
NoDir == [exists |-> FALSE, port |-> Nil]

Min(S) == CHOOSE x \in S : \A y \in S : x <= y

(***************************************************************************)
(* Decisions the handlers take, one operator per condition of the code.    *)
(***************************************************************************)
\* `if d.cmd != nil` at the top of ChromeDriver.Start.
AlreadyRunning(c) == c # Nil

\* Mutant: the test of d.cmd is missing.
NotRunning_Never(c) == FALSE

\* `if d.cmd == nil` at the top of Stop.
NotRunning(c) == c = Nil

\* d.cmd.Process.Signal dereferences nil when d.cmd is nil or when the command
\* was never started (its Process is nil).
SignalPanics(c, ps) == c = Nil \/ ps[c].state = "unstarted"

\* Mutant: the loop gives up one interval before the timeout.
TimedOut_Early(k, timeout) == k + 1 >= timeout

\* Mutant: the loop allows itself one interval more than the timeout.
TimedOut_Late(k, timeout) == k >= timeout + 1

\* `time.Since(now) > timeout` evaluated after k sleeps of one interval:
\* strictly more than k intervals have passed, so it holds from k = timeout on.
TimedOut(k, timeout) == k >= timeout

\* Mutant: the probe takes only a listener of this program's children for a
\* success.
DialOk_ChildOnly(b, port) == b[port] \notin {Free, External}

\* Mutant: the probe takes every attempt for a success.
DialOk_Always(b, port) == TRUE

\* net.Dial("tcp", "127.0.0.1:port") succeeds when anything listens there.
DialOk(b, port) == b[port] # Free

\* The value d.cmd keeps when runBrowser / exec fails to launch the child:
\* version 1 of ChromeDriver.Start stores exec.Command's result before
\* starting it, version 2 stores runBrowser's nil.
CmdAfterFailedLaunch(kind, id) == IF kind = "chrome_rb" THEN Nil ELSE id

\* Mutant: Stop does not clear d.cmd.
CmdAfterStop_Keep(c) == c

\* The deferred `d.cmd = nil` of Stop.
CmdAfterStop(c) == Nil

(***************************************************************************)
(* Init: the state after NewChromeDriver / NewFirefoxDriver, with the      *)
(* public configuration fields set by the caller.                          *)
(***************************************************************************)
InitDrivers ==
    /\ target \in {"chrome", "chrome_rb", "firefox"}
    /\ cfg \in [logFile : BOOLEAN, logPath : BOOLEAN, deleteProfile : BOOLEAN]
    /\ target = "firefox" => cfg.logPath = FALSE
    /\ target # "firefox" => cfg.deleteProfile = FALSE
    /\ Port \in [Insts -> {0, FixedPort, ChromePort}]
    /\ \A i \in Insts :
          IF target = "firefox"
          THEN Port[i] \in {0, FixedPort} /\ (i \notin ActiveInsts => Port[i] = 0)
          ELSE Port[i] = ChromePort
    /\ url = [i \in Insts |-> NoUrl]
    /\ cmd = [i \in Insts |-> Nil]
    /\ logFile = [i \in Insts |-> Nil]
    /\ profilePath = [i \in Insts |-> Nil]
    /\ pc = [i \in Insts |-> "idle"]
    /\ elapsed = [i \in Insts |-> 0]
    /\ call = [i \in Insts |-> NoCall]
    /\ procs = [k \in Ids |-> NoProc]
    /\ files = [k \in Ids |-> "none"]
    /\ tasks = NoTasks
    /\ dirs = [k \in Ids |-> NoDir]
    /\ lockHolder = Free
    /\ bound = [p \in AllPorts |-> Free]
    /\ starts = 0
    /\ crashed = FALSE

\* One driver instance, as in the test program.
Init ==
    /\ active = {1}
    /\ InitDrivers
    /\ followsAll = FALSE
    /\ locationRequired = TRUE
    /\ TransportIdle
    /\ PureIdle

(***************************************************************************)
(* ChromeDriver.Start, version 1 (exec.Command inline), up to the call of  *)
(* probePort.                                                              *)
(***************************************************************************)
ChromeStart(i) ==
    /\ target = "chrome" /\ i \in ActiveInsts /\ ~crashed /\ pc[i] = "idle"
    /\ IF AlreadyRunning(cmd[i])
       THEN /\ call' = [call EXCEPT ![i] = Return(NewCall("Start"), ErrChromeRunning)]
            /\ UNCHANGED <<url, cmd, logFile, procs, files, starts, pc, elapsed>>
       ELSE \E logPathOk \in BOOLEAN, launch \in {"ok", "pipe_err", "start_err"},
               logOpenOk \in BOOLEAN :
            LET id == starts + 1 IN
            /\ starts < MaxStarts
            /\ IF cfg.logPath /\ ~logPathOk
               THEN /\ call' = [call EXCEPT ![i] = Return(NewCall("Start"), ErrChromeLogPath)]
                    /\ UNCHANGED <<url, cmd, logFile, procs, files, starts, pc, elapsed>>
               ELSE /\ url' = [url EXCEPT ![i] = ChromeUrl(Port[i])]
                    /\ starts' = id
                    /\ IF launch # "ok"
                       THEN /\ cmd' = [cmd EXCEPT ![i] = CmdAfterFailedLaunch(target, id)]
                            /\ procs' = [procs EXCEPT ![id] = [state |-> "unstarted", port |-> Nil]]
                            /\ call' = [call EXCEPT ![i] = Return(NewCall("Start"), ErrChromeLaunch)]
                            /\ UNCHANGED <<logFile, files, pc, elapsed>>
                       ELSE /\ cmd' = [cmd EXCEPT ![i] = id]
                            /\ procs' = [procs EXCEPT ![id] = [state |-> "live", port |-> Port[i]]]
                            /\ IF cfg.logFile /\ ~logOpenOk
                               THEN /\ logFile' = [logFile EXCEPT ![i] = Nil]
                                    /\ call' = [call EXCEPT ![i] =
                                          Return([NewCall("Start") EXCEPT !.launched = id],
                                                 ErrOpenLogFile)]
                                    /\ UNCHANGED <<files, pc, elapsed>>
                               ELSE /\ logFile' = [logFile EXCEPT ![i] =
                                          IF cfg.logFile THEN id ELSE @]
                                    /\ files' = [files EXCEPT ![id] =
                                          IF cfg.logFile THEN "open" ELSE @]
                                    /\ call' = [call EXCEPT ![i] =
                                          [NewCall("Start") EXCEPT !.launched = id]]
                                    /\ pc' = [pc EXCEPT ![i] = "probe"]
                                    /\ elapsed' = [elapsed EXCEPT ![i] = 0]
    /\ UNCHANGED <<transportVars, pureVars, tasks>>
    /\ UNCHANGED <<target, active, cfg, Port, profilePath, dirs, lockHolder, bound, crashed>>

(***************************************************************************)
(* ChromeDriver.Start, version 2 (through runBrowser), up to the call of   *)
(* probePort.  runBrowser returns (nil, nil, err) on every failure, also   *)
(* when the log file cannot be opened after the child was started.         *)
(***************************************************************************)
ChromeStartRB(i) ==
    /\ target = "chrome_rb" /\ i \in ActiveInsts /\ ~crashed /\ pc[i] = "idle"
    /\ IF AlreadyRunning(cmd[i])
       THEN /\ call' = [call EXCEPT ![i] = Return(NewCall("Start"), ErrChromeRunning)]
            /\ UNCHANGED <<url, cmd, logFile, procs, files, starts, pc, elapsed>>
       ELSE \E logPathOk \in BOOLEAN, launch \in {"ok", "pipe_err", "start_err"},
               logOpenOk \in BOOLEAN :
            LET id == starts + 1 IN
            /\ starts < MaxStarts
            /\ IF cfg.logPath /\ ~logPathOk
               THEN /\ call' = [call EXCEPT ![i] = Return(NewCall("Start"), ErrChromeLogPath)]
                    /\ UNCHANGED <<url, cmd, logFile, procs, files, starts, pc, elapsed>>
               ELSE /\ url' = [url EXCEPT ![i] = ChromeUrl(Port[i])]
                    /\ starts' = id
                    /\ IF launch # "ok"
                       THEN /\ cmd' = [cmd EXCEPT ![i] = CmdAfterFailedLaunch(target, id)]
                            /\ logFile' = [logFile EXCEPT ![i] = Nil]
                            /\ procs' = [procs EXCEPT ![id] = [state |-> "unstarted", port |-> Nil]]
                            /\ call' = [call EXCEPT ![i] = Return(NewCall("Start"), ErrChromeLaunch)]
                            /\ UNCHANGED <<files, pc, elapsed>>
                       ELSE /\ procs' = [procs EXCEPT ![id] = [state |-> "live", port |-> Port[i]]]
                            /\ IF cfg.logFile /\ ~logOpenOk
                               THEN /\ cmd' = [cmd EXCEPT ![i] = Nil]
                                    /\ logFile' = [logFile EXCEPT ![i] = Nil]
                                    /\ call' = [call EXCEPT ![i] =
                                          Return([NewCall("Start") EXCEPT !.launched = id],
                                                 Err(csferr, ErrOpenLogFile[2]))]
                                    /\ UNCHANGED <<files, pc, elapsed>>
                               ELSE /\ cmd' = [cmd EXCEPT ![i] = id]
                                    /\ logFile' = [logFile EXCEPT ![i] =
                                          IF cfg.logFile THEN id ELSE Nil]
                                    /\ files' = [files EXCEPT ![id] =
                                          IF cfg.logFile THEN "open" ELSE @]
                                    /\ call' = [call EXCEPT ![i] =
                                          [NewCall("Start") EXCEPT !.launched = id]]
                                    /\ pc' = [pc EXCEPT ![i] = "probe"]
                                    /\ elapsed' = [elapsed EXCEPT ![i] = 0]
    /\ UNCHANGED <<transportVars, pureVars, tasks>>
    /\ UNCHANGED <<target, active, cfg, Port, profilePath, dirs, lockHolder, bound, crashed>>

(***************************************************************************)
(* FirefoxDriver.Start from the port scan to the call of probePort: the    *)
(* scan for a free port (when the lock was taken), createTempProfile, the  *)
(* launch of the browser and the opening of the log file.  `in` holds the  *)
(* outcomes of the system calls; the stage at which Start returns early is *)
(* 1 (closing the test listener failed), 2 (profile), 3 (launch), 4 (log   *)
(* file), or 5 when it goes on to probe.                                   *)
(***************************************************************************)
\* The candidates of `for i := d.Port; i < 65535; i++` on which net.Listen succeeds.
ScanAvailable(b) == {p \in ScanPorts : b[p] = Free}

\* Mutant: the scan starts at the lock port, one below the base.
ScanSelect_FromLockPort(b) == Min(ScanAvailable(b) \cup {LockPort})

\* The port the scan selects: the first candidate that could be listened on;
\* d.Port keeps the base when the loop finds none.
ScanSelect(b) == IF ScanAvailable(b) = {} THEN FirefoxBasePort ELSE Min(ScanAvailable(b))

\* Mutant: the preference is set before the scan, to the base port.
PrefPort_Base(port) == FirefoxBasePort

\* `d.Prefs["webdriver_firefox_port"] = d.Port`, after the scan: the port
\* createTempProfile writes to user.js.
PrefPort(port) == port

\* Mutant: the lock listener is not closed when Start returns.
LockAfterReturn_Kept(h, i) == h

\* `defer ln.Close()` of the lock listener: when Start() of instance i
\* returns, the listener it opened on 7054 is closed.
LockAfterReturn(h, i) == IF h = i THEN Free ELSE h

\* Mutant: the error of createTempProfile is not tested.
FirefoxStage_ProfileUntested(scan, in) ==
    IF scan /\ ScanAvailable(bound) # {} /\ ~in.scanCloseOk THEN 1
    ELSE IF ~in.launchOk THEN 3
    ELSE IF cfg.logFile /\ ~in.logOpenOk THEN 4
    ELSE 5

FirefoxStage(scan, in) ==
    IF scan /\ ScanAvailable(bound) # {} /\ ~in.scanCloseOk THEN 1
    ELSE IF in.prof # "ok" THEN 2
    ELSE IF ~in.launchOk THEN 3
    ELSE IF cfg.logFile /\ ~in.logOpenOk THEN 4
    ELSE 5

FirefoxStageErr(r, in) ==
    CASE r = 1 -> ErrScanClose
      [] r = 2 -> ProfileErr(in.prof)
      [] r = 3 -> ErrFirefoxLaunch
      [] r = 4 -> ErrOpenLogFile
      [] OTHER -> ErrNil

FirefoxBody(i, scan, in) ==
    LET id == starts + 1
        r == FirefoxStage(scan, in)
        port == IF scan
                THEN (IF r >= 2 THEN ScanSelect(bound) ELSE FirefoxBasePort)
                ELSE Port[i]
        c == [NewCall("Start") EXCEPT
                 !.locked = scan,
                 !.profile = IF r >= 2 /\ in.prof # "fail_early" THEN id ELSE Nil,
                 !.launched = IF r >= 4 THEN id ELSE Nil]
    IN
    /\ starts < MaxStarts
    /\ Port' = [Port EXCEPT ![i] = port]
    /\ starts' = IF r >= 2 THEN id ELSE starts
    /\ dirs' = IF r >= 2 /\ in.prof # "fail_early"
               THEN [dirs EXCEPT ![id] = [exists |-> TRUE,
                                          port |-> IF in.prof = "ok" THEN PrefPort(port)
                                                   ELSE Nil]]
               ELSE dirs
    /\ profilePath' = IF r >= 2
                      THEN [profilePath EXCEPT ![i] = IF in.prof = "ok" THEN id ELSE Nil]
                      ELSE profilePath
    /\ cmd' = IF r >= 3 THEN [cmd EXCEPT ![i] = id] ELSE cmd
    /\ procs' = IF r >= 3
                THEN [procs EXCEPT ![id] =
                         IF r = 3 THEN [state |-> "unstarted", port |-> Nil]
                         ELSE [state |-> "live", port |-> port]]
                ELSE procs
    /\ logFile' = IF r >= 4 /\ cfg.logFile
                  THEN [logFile EXCEPT ![i] = IF r = 4 THEN Nil ELSE id]
                  ELSE logFile
    /\ files' = IF r = 5 /\ cfg.logFile THEN [files EXCEPT ![id] = "open"] ELSE files
    /\ pc' = [pc EXCEPT ![i] = IF r = 5 THEN "probe" ELSE "idle"]
    /\ elapsed' = [elapsed EXCEPT ![i] = 0]
    /\ lockHolder' = IF ~scan THEN lockHolder
                      ELSE IF r = 5 THEN i
                      ELSE LockAfterReturn(i, i)
    /\ call' = [call EXCEPT ![i] = IF r = 5 THEN c ELSE Return(c, FirefoxStageErr(r, in))]

\* The outcomes of ln.Close, createTempProfile, cmd.Start and os.OpenFile in
\* one call.  Start returns at the first failure, so an operation after it
\* is not called and has no outcome of its own.
FirefoxInputs ==
    {in \in [scanCloseOk : BOOLEAN, prof : {"ok"} \cup ProfileFailures,
             launchOk : BOOLEAN, logOpenOk : BOOLEAN] :
        /\ ~in.scanCloseOk => in.prof = "ok"
        /\ in.prof # "ok" => in.launchOk
        /\ ~in.launchOk => in.logOpenOk
        /\ (~in.scanCloseOk \/ in.prof # "ok") => (in.launchOk /\ in.logOpenOk)}

(***************************************************************************)
(* FirefoxDriver.Start, entry: with Port = 0 it sets the base port and     *)
(* enters the lock loop; with a port given it goes straight on.  There is  *)
(* no test of d.cmd.                                                       *)
(***************************************************************************)
\* The bound on Start() calls counts the calls waiting in the lock loop, so
\* that a call that entered the loop can always go on.
StartsLeft == starts + Cardinality({j \in Insts : pc[j] = "lock"}) < MaxStarts

FirefoxStart(i) ==
    /\ target = "firefox" /\ i \in ActiveInsts /\ ~crashed /\ pc[i] = "idle"
    /\ StartsLeft
    /\ IF Port[i] = 0
       THEN /\ Port' = [Port EXCEPT ![i] = FirefoxBasePort]
            /\ pc' = [pc EXCEPT ![i] = "lock"]
            /\ elapsed' = [elapsed EXCEPT ![i] = 0]
            /\ call' = [call EXCEPT ![i] = NewCall("Start")]
            /\ UNCHANGED <<url, cmd, logFile, profilePath, procs, files, dirs,
                           lockHolder, starts>>
       ELSE /\ \E in \in FirefoxInputs : FirefoxBody(i, FALSE, in)
            /\ UNCHANGED url
    /\ UNCHANGED <<transportVars, pureVars, tasks>>
    /\ UNCHANGED <<target, active, cfg, bound, crashed>>

(***************************************************************************)
(* One iteration of the lock loop of FirefoxDriver.Start: net.Listen on    *)
(* 127.0.0.1:7054, then the timeout test, then the sleep.                  *)
(***************************************************************************)
FirefoxLockStep(i) ==
    /\ target = "firefox" /\ ~crashed /\ pc[i] = "lock"
    /\ IF lockHolder = Free
       THEN /\ \E in \in FirefoxInputs : FirefoxBody(i, TRUE, in)
            /\ UNCHANGED url
       ELSE IF TimedOut(elapsed[i], LockPortTimeout)
       THEN /\ pc' = [pc EXCEPT ![i] = "idle"]
            /\ call' = [call EXCEPT ![i] =
                  Return([@ EXCEPT !.waited = elapsed[i]], ErrLockTimeout)]
            /\ elapsed' = [elapsed EXCEPT ![i] = 0]
            /\ UNCHANGED <<Port, url, cmd, logFile, profilePath, procs, files,
                           dirs, lockHolder, starts>>
       ELSE /\ elapsed' = [elapsed EXCEPT ![i] = @ + 1]
            /\ UNCHANGED <<Port, url, cmd, logFile, profilePath, pc, call, procs, files,
                           dirs, lockHolder, starts>>
    /\ UNCHANGED <<transportVars, pureVars, tasks>>
    /\ UNCHANGED <<target, active, cfg, bound, crashed>>

(***************************************************************************)
(* One iteration of probePort, and what Start does with its result: the    *)
(* deferred ln.Close() of the lock listener runs on return, and            *)
(* FirefoxDriver.Start sets d.url after a successful probe.                *)
(***************************************************************************)
\* Mutant: Start gives up the child when the probe fails.
CmdAfterFailedProbe_Cleared(c) == Nil

\* `if err = probePort(d.Port, d.StartTimeout); err != nil { return err }`:
\* d.cmd is left as the launch set it.
CmdAfterFailedProbe(c) == c

UrlAfterProbe_Kept(kind, u, port) == u

UrlAfterProbe(kind, u, port) == IF kind = "firefox" THEN FirefoxUrl(port) ELSE u

ProbeStep(i) ==
    /\ ~crashed /\ pc[i] = "probe"
    /\ IF DialOk(bound, Port[i])
       THEN \E closeOk \in BOOLEAN :
            /\ pc' = [pc EXCEPT ![i] = "idle"]
            /\ call' = [call EXCEPT ![i] =
                  Return([@ EXCEPT !.connected = (bound[Port[i]] # Free),
                                   !.waited = elapsed[i],
                                   !.probed = Port[i]],
                         IF closeOk THEN ErrNil ELSE ErrConnClose)]
            /\ url' = [url EXCEPT ![i] =
                  IF closeOk THEN UrlAfterProbe(target, @, Port[i]) ELSE @]
            /\ lockHolder' = LockAfterReturn(lockHolder, i)
            /\ elapsed' = [elapsed EXCEPT ![i] = 0]
            /\ UNCHANGED cmd
       ELSE IF TimedOut(elapsed[i], StartTimeout)
       THEN /\ pc' = [pc EXCEPT ![i] = "idle"]
            /\ call' = [call EXCEPT ![i] =
                  Return([@ EXCEPT !.waited = elapsed[i], !.probed = Port[i]],
                         ErrProbeTimeout)]
            /\ lockHolder' = LockAfterReturn(lockHolder, i)
            /\ elapsed' = [elapsed EXCEPT ![i] = 0]
            /\ cmd' = [cmd EXCEPT ![i] = CmdAfterFailedProbe(@)]
            /\ UNCHANGED url
       ELSE /\ elapsed' = [elapsed EXCEPT ![i] = @ + 1]
            /\ UNCHANGED <<url, cmd, pc, call, lockHolder>>
    /\ UNCHANGED <<transportVars, pureVars, tasks>>
    /\ UNCHANGED <<target, active, cfg, Port, logFile, profilePath, procs, files, dirs,
                   bound, starts, crashed>>

(***************************************************************************)
(* Stop.  d.cmd.Process is nil for a command that was never started, and   *)
(* Signal on it dereferences nil: the program panics (the deferred         *)
(* d.cmd = nil still runs).  The results of Signal and Close are dropped.  *)
(***************************************************************************)
\* The state of a process after Process.Signal(os.Interrupt).
Signalled(p, sigOk) ==
    IF sigOk /\ p.state = "live" THEN [p EXCEPT !.state = "signalled"] ELSE p

\* The state of a log file handle after Close().
Closed(f) == IF f = "open" THEN "closed" ELSE f

\* `if d.DeleteProfileOnClose { os.RemoveAll(d.profilePath) }`
RemovesProfile(c) == c.deleteProfile

\* Mutant: Stop waits until both io.Copy goroutines of the child have
\* returned, with everything in the pipes read and written.
TasksAfterStop_Joined(t, k) ==
    [t EXCEPT ![k] = [s \in Streams |->
        [t[k][s] EXCEPT !.read = t[k][s].out, !.written = t[k][s].out,
                        !.ended = TRUE]]]

\* Stop signals the child and closes the log file; it has no handle on the
\* goroutines Start() launched (no WaitGroup, no channel, no cmd.Wait), so
\* it leaves them where they are.
TasksAfterStop(t, k) == t

StopCommon(i, errNotRunning, removes) ==
    /\ ~crashed /\ pc[i] = "idle"
    /\ IF NotRunning(cmd[i])
       THEN /\ call' = [call EXCEPT ![i] = Return(NewCall("Stop"), errNotRunning)]
            /\ UNCHANGED <<cmd, procs, files, dirs, crashed, tasks>>
       ELSE IF SignalPanics(cmd[i], procs)
       THEN /\ crashed' = TRUE
            /\ cmd' = [cmd EXCEPT ![i] = CmdAfterStop(@)]
            /\ call' = [call EXCEPT ![i] = NewCall("Stop")]
            /\ UNCHANGED <<procs, files, dirs, tasks>>
       ELSE \E sigOk \in BOOLEAN :
            /\ procs' = [procs EXCEPT ![cmd[i]] = Signalled(@, sigOk)]
            /\ files' = IF logFile[i] # Nil
                        THEN [files EXCEPT ![logFile[i]] = Closed(@)]
                        ELSE files
            /\ dirs' = IF removes /\ profilePath[i] # Nil
                       THEN [dirs EXCEPT ![profilePath[i]].exists = FALSE]
                       ELSE dirs
            /\ cmd' = [cmd EXCEPT ![i] = CmdAfterStop(@)]
            /\ tasks' = TasksAfterStop(tasks, cmd[i])
            /\ call' = [call EXCEPT ![i] =
                  Return([NewCall("Stop") EXCEPT
                             !.signalled = cmd[i],
                             !.closed = logFile[i],
                             !.removed = IF removes THEN profilePath[i] ELSE Nil],
                         ErrNil)]
            /\ UNCHANGED crashed
    /\ UNCHANGED <<transportVars, pureVars>>
    /\ UNCHANGED <<target, active, cfg, Port, url, logFile, profilePath, pc, elapsed,
                   lockHolder, bound, starts>>

ChromeStop(i) ==
    /\ target \in {"chrome", "chrome_rb"} /\ i \in ActiveInsts
    /\ StopCommon(i, ErrChromeNotRunning, FALSE)

FirefoxStop(i) ==
    /\ target = "firefox" /\ i \in ActiveInsts
    /\ StopCommon(i, ErrFirefoxNotRunning, RemovesProfile(cfg))

(***************************************************************************)
(* The environment: children bind the port they were given and exit after  *)
(* the interrupt; other processes open and close listeners.                *)
(***************************************************************************)
TargetPorts == IF target = "firefox" THEN ScanPorts \cup {FixedPort} ELSE {ChromePort}

ChildBind(k) ==
    /\ procs[k].state = "live"
    /\ bound[procs[k].port] = Free
    /\ \A p \in AllPorts : bound[p] # k
    /\ bound' = [bound EXCEPT ![procs[k].port] = k]
    /\ UNCHANGED <<transportVars, pureVars, tasks>>
    /\ UNCHANGED <<target, active, cfg, Port, url, cmd, logFile, profilePath, pc, elapsed,
                   call, procs, files, dirs, lockHolder, starts, crashed>>

ChildExit(k) ==
    /\ procs[k].state = "signalled"
    /\ procs' = [procs EXCEPT ![k].state = "exited"]
    /\ bound' = [p \in AllPorts |-> IF bound[p] = k THEN Free ELSE bound[p]]
    /\ UNCHANGED <<transportVars, pureVars, tasks>>
    /\ UNCHANGED <<target, active, cfg, Port, url, cmd, logFile, profilePath, pc, elapsed,
                   call, files, dirs, lockHolder, starts, crashed>>

ExternalListen(p) ==
    /\ p \in TargetPorts
    /\ bound[p] = Free
    /\ bound' = [bound EXCEPT ![p] = External]
    /\ UNCHANGED <<transportVars, pureVars, tasks>>
    /\ UNCHANGED <<target, active, cfg, Port, url, cmd, logFile, profilePath, pc, elapsed,
                   call, procs, files, dirs, lockHolder, starts, crashed>>

ExternalClose(p) ==
    /\ bound[p] = External
    /\ bound' = [bound EXCEPT ![p] = Free]
    /\ UNCHANGED <<transportVars, pureVars, tasks>>
    /\ UNCHANGED <<target, active, cfg, Port, url, cmd, logFile, profilePath, pc, elapsed,
                   call, procs, files, dirs, lockHolder, starts, crashed>>

\* Another program's listener on the lock port matters to this program only
\* while one of its Start() calls is in the lock loop.
ExternalLock ==
    /\ \E i \in ActiveInsts : pc[i] = "lock"
    /\ lockHolder = Free
    /\ lockHolder' = External
    /\ UNCHANGED <<transportVars, pureVars, tasks>>
    /\ UNCHANGED <<target, active, cfg, Port, url, cmd, logFile, profilePath, pc, elapsed,
                   call, procs, files, dirs, bound, starts, crashed>>

ExternalUnlock ==
    /\ lockHolder = External
    /\ lockHolder' = Free
    /\ UNCHANGED <<transportVars, pureVars, tasks>>
    /\ UNCHANGED <<target, active, cfg, Port, url, cmd, logFile, profilePath, pc, elapsed,
                   call, procs, files, dirs, bound, starts, crashed>>

\* A base URL the program gives the transport itself.
UserUrls == {<<"http://10.0.0.1:", 4444, "/wd">>}

(***************************************************************************)
(* WebDriverCore.SetUrl, promoted to both drivers: `d.url = u.String()`,   *)
(* whatever the state of the driver; called between two calls of Start()   *)
(* and Stop() of the instance.                                             *)
(***************************************************************************)
SetUrl(i, u) ==
    /\ i \in ActiveInsts /\ ~crashed /\ pc[i] = "idle"
    /\ url' = [url EXCEPT ![i] = u]
    /\ call' = [call EXCEPT ![i] = Return(NewCall("SetUrl"), ErrNil)]
    /\ UNCHANGED <<transportVars, pureVars, tasks>>
    /\ UNCHANGED <<target, active, cfg, Port, cmd, logFile, profilePath, pc, elapsed,
                   lockHolder, bound, starts, procs, files, dirs, crashed>>

\* The calls of Start() and Stop() and the environment: every step but the
\* program's own setting of the base URL.
NextDriver ==
    \/ \E i \in Insts : ChromeStart(i)
    \/ \E i \in Insts : ChromeStartRB(i)
    \/ \E i \in Insts : FirefoxStart(i)
    \/ \E i \in Insts : FirefoxLockStep(i)
    \/ \E i \in Insts : ProbeStep(i)
    \/ \E i \in Insts : ChromeStop(i)
    \/ \E i \in Insts : FirefoxStop(i)
    \/ \E k \in Ids : ChildBind(k)
    \/ \E k \in Ids : ChildExit(k)
    \/ \E p \in AllPorts : ExternalListen(p)
    \/ \E p \in AllPorts : ExternalClose(p)
    \/ ExternalLock
    \/ ExternalUnlock

Next ==
    \/ NextDriver
    \/ \E i \in Insts : \E u \in UserUrls : SetUrl(i, u)

Spec == Init /\ [][Next]_vars

\* SetUrl writes d.url and nothing else, and Start() and Stop() never read
\* d.url: what does not speak of the base URL is checked without SetUrl.
DriverSpec == Init /\ [][NextDriver]_vars

\* The base URL: every call of the drivers and SetUrl, the children and the
\* lock port.  Another program's listener on a driver port changes which
\* port is selected and whether a probe succeeds, both of which happen
\* without it, and is left out.
NextUrl ==
    \/ \E i \in Insts : ChromeStart(i)
    \/ \E i \in Insts : ChromeStartRB(i)
    \/ \E i \in Insts : FirefoxStart(i)
    \/ \E i \in Insts : FirefoxLockStep(i)
    \/ \E i \in Insts : ProbeStep(i)
    \/ \E i \in Insts : ChromeStop(i)
    \/ \E i \in Insts : FirefoxStop(i)
    \/ \E i \in Insts : \E u \in UserUrls : SetUrl(i, u)
    \/ \E k \in Ids : ChildBind(k)
    \/ \E k \in Ids : ChildExit(k)
    \/ ExternalLock
    \/ ExternalUnlock

UrlSpec == Init /\ [][NextUrl]_vars

(***************************************************************************)
(* Two FirefoxDriver instances with Port = 0 in one program, and nothing   *)
(* else using the ports.                                                   *)
(***************************************************************************)
InitPair ==
    /\ active = Insts
    /\ InitDrivers
    /\ target = "firefox"
    /\ cfg = [logFile |-> FALSE, logPath |-> FALSE, deleteProfile |-> TRUE]
    /\ Port = [i \in Insts |-> 0]
    /\ followsAll = FALSE
    /\ locationRequired = TRUE
    /\ TransportIdle
    /\ PureIdle

NextPair ==
    \/ \E i \in Insts : FirefoxStart(i)
    \/ \E i \in Insts : FirefoxLockStep(i)
    \/ \E i \in Insts : ProbeStep(i)
    \/ \E i \in Insts : FirefoxStop(i)
    \/ \E k \in Ids : ChildBind(k)
    \/ \E k \in Ids : ChildExit(k)

PairSpec == InitPair /\ [][NextPair]_vars

(***************************************************************************)
(* The same two instances while another program may hold the lock port.    *)
(* A Start() call in the lock loop or in probePort is a running goroutine:  *)
(* it sleeps one interval and tries again, so its next iteration is always *)
(* taken.                                                                  *)
(***************************************************************************)
NextLock ==
    \/ NextPair
    \/ ExternalLock
    \/ ExternalUnlock

LoopFairness ==
    \A i \in Insts : WF_vars(FirefoxLockStep(i)) /\ WF_vars(ProbeStep(i))

LockSpec == InitPair /\ [][NextLock]_vars /\ LoopFairness

(***************************************************************************)
(* The stdio copy tasks.  Start() ends with `go io.Copy(dst, stdout)` and  *)
(* `go io.Copy(dst, stderr)`, dst being the log file or the program's own  *)
(* stdout / stderr; a Start() that fails before that line starts neither.  *)
(* io.Copy reads a chunk from the pipe and writes it to dst until the read *)
(* gives EOF (the child has exited and the pipe is empty) or the write     *)
(* fails (the log file has been closed).                                   *)
(***************************************************************************)
\* Whether the goroutines of child k were started: the child was launched and
\* the log file, when one is configured, was opened.
CopyStarted(k) ==
    /\ procs[k].state \notin {"none", "unstarted"}
    /\ cfg.logFile => files[k] # "none"

\* Whether a write to the destination of child k's copy tasks succeeds.
DestinationOpen(k) == cfg.logFile => files[k] = "open"

\* One pass of io.Copy's loop over a chunk that is in the pipe.
CopyChunk(t, open) ==
    IF open
    THEN [t EXCEPT !.read = @ + 1, !.written = @ + 1]
    ELSE [t EXCEPT !.read = @ + 1, !.ended = TRUE]

RECURSIVE Emitted(_, _)
Emitted(t, K) ==
    IF K = {} THEN 0
    ELSE LET k == CHOOSE x \in K : TRUE
         IN  t[k]["stdout"].out + t[k]["stderr"].out + Emitted(t, K \ {k})

\* The child writes a chunk to one of its pipes.
ChildWrites(k, s) ==
    /\ procs[k].state \in {"live", "signalled"}
    /\ Emitted(tasks, Ids) < MaxOutput
    /\ tasks' = [tasks EXCEPT ![k][s].out = @ + 1]
    /\ UNCHANGED <<transportVars, pureVars>>
    /\ UNCHANGED <<target, active, cfg, Port, url, cmd, logFile, profilePath, pc, elapsed,
                   call, procs, files, dirs, lockHolder, bound, starts, crashed>>

\* One pass of the loop of io.Copy in the goroutine of stream s of child k.
CopyStep(k, s) ==
    /\ ~crashed /\ CopyStarted(k) /\ ~tasks[k][s].ended
    /\ IF tasks[k][s].read < tasks[k][s].out
       THEN tasks' = [tasks EXCEPT ![k][s] = CopyChunk(@, DestinationOpen(k))]
       ELSE /\ procs[k].state = "exited"
            /\ tasks' = [tasks EXCEPT ![k][s].ended = TRUE]
    /\ UNCHANGED <<transportVars, pureVars>>
    /\ UNCHANGED <<target, active, cfg, Port, url, cmd, logFile, profilePath, pc, elapsed,
                   call, procs, files, dirs, lockHolder, bound, starts, crashed>>

\* A ChromeDriver with a writable log path and a log file for the child's
\* output, its child and the child's output.
InitCopy ==
    /\ Init
    /\ target \in {"chrome", "chrome_rb"}
    /\ cfg.logPath = FALSE
    /\ cfg.logFile = TRUE

NextCopy ==
    \/ \E i \in Insts : ChromeStart(i)
    \/ \E i \in Insts : ChromeStartRB(i)
    \/ \E i \in Insts : ProbeStep(i)
    \/ \E i \in Insts : ChromeStop(i)
    \/ \E k \in Ids : ChildBind(k)
    \/ \E k \in Ids : ChildExit(k)
    \/ \E k \in Ids, s \in Streams : ChildWrites(k, s)
    \/ \E k \in Ids, s \in Streams : CopyStep(k, s)

CopySpec == InitCopy /\ [][NextCopy]_vars

(***************************************************************************)
(* The transport: WebDriverCore.do / doInternal, the JSON envelope and     *)
(* parseError.                                                             *)
(*                                                                         *)
(* Raw JSON texts are sequences of characters where the code looks at the  *)
(* characters (the session id, which it trims), and records naming the     *)
(* JSON value where it hands the text to json.Unmarshal (the value).       *)
(***************************************************************************)
\* Requests http.Client.Do sends before it gives up following redirects
\* (10 in net/http).
ClientMaxRequests == 2

Q == "\""
\* "sessionId" as it stands in the body: absent, "a", "{a}" or null.
RawSessionIds == { <<>>, <<Q, "a", Q>>, <<Q, "{", "a", "}", Q>>, <<"n", "u", "l", "l">> }

\* "status" as it stands in the body: absent, an integer, or not an integer.
StatusValues == {0, 7, 28, 99, -1}
RawStatuses == {[k |-> "absent", n |-> 0], [k |-> "bad", n |-> 0]}
               \cup {[k |-> "int", n |-> n] : n \in StatusValues}

\* "value" as it stands in the body.  Of an object, what matters to the code
\* is which fields of CommandError its keys name, and whether the JSON type
\* of each fits the field: "a" absent, "g" fits, "b" does not fit.
FieldStates == {"a", "g", "b"}
\* A "statusCode" key may also fit and carry -1: "n".
StatusCodeKeyStates == FieldStates \cup {"n"}
RawValue(k, m, c, t) == [k |-> k, message |-> m, statusCode |-> c, errorType |-> t]
AbsentValue == RawValue("absent", "a", "a", "a")
RawValues ==
    {RawValue(k, "a", "a", "a") : k \in {"absent", "null", "string", "number"}}
    \cup {RawValue("object", m, c, "a") : m \in FieldStates, c \in StatusCodeKeyStates}
    \cup {RawValue("object", "a", "a", t) : t \in {"g", "b"}}

\* The integer and the strings a well-typed field of the value object carries.
InjectedStatusCode == 5
InjectedErrorType == "injected"
InjectedMessage == "m"

\* Response bodies: not JSON at all, JSON null, JSON that is no object, or an
\* object with (some of) the three envelope fields.
Body(j, sid, st, v) == [json |-> j, sid |-> sid, status |-> st, value |-> v]
Bodies ==
    {Body(j, <<>>, [k |-> "absent", n |-> 0], AbsentValue) :
        j \in {"invalid", "null", "nonobject"}}
    \cup {Body("object", sid, st, v) :
             sid \in RawSessionIds, st \in RawStatuses, v \in RawValues}

\* The bodies a 302/303 answer carries in the model: nothing, or an envelope
\* that would decode to a session id and a value.
RedirectBodies ==
    { Body("invalid", <<>>, [k |-> "absent", n |-> 0], AbsentValue),
      Body("object", <<Q, "{", "a", "}", Q>>, [k |-> "int", n |-> 0],
           RawValue("number", "a", "a", "a")) }

HttpCodes == {200, 204, 302, 303, 400, 404, 405, 500, 501, 503}
RedirectCodes == {302, 303}

Response(c, l, b) == [code |-> c, loc |-> l, body |-> b]
Responses ==
    {Response(c, FALSE, b) : c \in HttpCodes \ RedirectCodes, b \in Bodies}
    \cup {Response(c, l, b) : c \in RedirectCodes, l \in BOOLEAN, b \in RedirectBodies}

Methods == {"GET", "POST", "DELETE", "PUT"}

(***************************************************************************)
(* json.Unmarshal(buf, jr) into jsonResponse: a syntax error or a JSON     *)
(* value that is no object (and not null) gives an error and leaves jr     *)
(* zero; a field of the wrong JSON type gives an error and leaves that     *)
(* field zero while the others are still stored.                           *)
(***************************************************************************)
ZeroEnvelope == [RawSessionId |-> <<>>, Status |-> 0, RawValue |-> AbsentValue]

DecodeEnvelope(b) ==
    IF b.json \in {"invalid", "nonobject"} THEN [err |-> TRUE, jr |-> ZeroEnvelope]
    ELSE IF b.json = "null" THEN [err |-> FALSE, jr |-> ZeroEnvelope]
    ELSE [err |-> b.status.k = "bad",
          jr |-> [RawSessionId |-> b.sid,
                  Status |-> IF b.status.k = "int" THEN b.status.n ELSE 0,
                  RawValue |-> b.value]]

\* bytes.Trim(raw, "{}\""): drops the leading and trailing characters that
\* are in the cutset.
Cutset == {"{", "}", Q}

RECURSIVE TrimLeft(_)
TrimLeft(q) ==
    IF q # <<>> /\ Head(q) \in Cutset THEN TrimLeft(Tail(q)) ELSE q

RECURSIVE TrimRight(_)
TrimRight(q) ==
    IF q # <<>> /\ q[Len(q)] \in Cutset THEN TrimRight(SubSeq(q, 1, Len(q) - 1)) ELSE q

Trim(q) == TrimRight(TrimLeft(q))

(***************************************************************************)
(* parseError.                                                             *)
(***************************************************************************)
ResponseCodeError(c) ==
    CASE c = 200 -> ""
      [] c = 400 -> "400: Missing Command Parameters"
      [] c = 404 -> "404: Unknown command/Resource Not Found"
      [] c = 405 -> "405: Invalid Command Method"
      [] c = 500 -> "500: Failed Command"
      [] c = 501 -> "501: Unimplemented Command"
      [] OTHER -> "Unknown error"

\* `&CommandError{...}`: the error parseError returns is a pointer, so its
\* dynamic type is *CommandError.
CommandError(code, type, msg) ==
    <<"*CommandError", [StatusCode |-> code, ErrorType |-> type, Message |-> msg]>>

\* `cerr, ok := err.(CommandError)`: ok says whether the dynamic type of err
\* is CommandError itself; a *CommandError does not pass.
AssertCommandError(e) == e[1] = "CommandError"

\* json.Unmarshal(jr.RawValue, commandError) fails on an empty text, on a
\* JSON value that is neither an object nor null, and on an object with a
\* field of the wrong type.
ValueDecodeFails(v) ==
    \/ v.k \in {"absent", "string", "number"}
    \/ v.k = "object" /\ "b" \in {v.message, v.statusCode, v.errorType}

\* StatusCode after json.Unmarshal(jr.RawValue, commandError): keys are matched
\* to the fields of CommandError without regard to case, so a well-typed
\* "statusCode" key of the value object overwrites the inner status.
StatusCodeAfterValue(status, v) ==
    IF v.k = "object" /\ v.statusCode = "g" THEN InjectedStatusCode
    ELSE IF v.k = "object" /\ v.statusCode = "n" THEN -1
    ELSE status

ErrorTypeAfterValue(type, v) ==
    IF v.k = "object" /\ v.errorType = "g" THEN InjectedErrorType ELSE type

\* Message: the raw value verbatim when decoding it failed (the empty string
\* when the envelope has no value), else the value object's message, if any.
MessageAfterValue(v) ==
    IF v.k = "absent" THEN <<"text", "">>
    ELSE IF ValueDecodeFails(v) THEN <<"raw", v>>
    ELSE IF v.k = "object" /\ v.message = "g" THEN <<"text", InjectedMessage>>
    ELSE <<"text", "">>

\* Mutant: the zero inner status is passed on like any other.
NoInnerStatus_Never(status) == FALSE

\* `if jr.Status == 0`
NoInnerStatus(status) == status = 0

parseError(c, jr) ==
    IF NoInnerStatus(jr.Status)
    THEN CommandError(-1, ResponseCodeError(c), <<"text", "">>)
    ELSE CommandError(StatusCodeAfterValue(jr.Status, jr.RawValue),
                      ErrorTypeAfterValue(ResponseCodeError(c), jr.RawValue),
                      MessageAfterValue(jr.RawValue))

(***************************************************************************)
(* The tail of doInternal: from the body of the response to the result.    *)
(***************************************************************************)
NoErr == <<"nil">>
NilValue == <<"nil">>
ErrInvalidMethod(m) == <<"invalid method: ", m>>
ErrNotJson == <<"error: response must be a JSON object">>
ErrNoLocation == <<"http: no Location header in response">>
\* The error of http.Client.Do, "<code> response missing Location header".
ErrMissingLocation(code) == <<"response missing Location header", code>>
ErrTooManyRedirects == <<"stopped after too many redirects">>

Result(sid, value, err) == [sid |-> sid, value |-> value, err |-> err]

\* `[]byte(jr.RawValue)`: the text of the value as received; a nil slice when
\* the envelope has no value.
RawBytes(v) == IF v.k = "absent" THEN NilValue ELSE <<"raw", v>>

\* Mutant: an error comes with the envelope's session id and value.
FailWith_KeepingValue(r, err) ==
    Result(Trim(DecodeEnvelope(r.body).jr.RawSessionId),
           RawBytes(DecodeEnvelope(r.body).jr.RawValue), err)

\* `return "", nil, err`
FailWith(r, err) == Result(<<>>, NilValue, err)

\* Mutant: the value is returned decoded (a JSON string loses its quotes, so
\* it is no longer the text received) and the session id untrimmed.
Succeed_Decoded(jr) ==
    Result(jr.RawSessionId, <<"decoded", jr.RawValue>>, NoErr)

\* `return sessionId, []byte(jr.RawValue), nil`
Succeed(jr) == Result(Trim(jr.RawSessionId), RawBytes(jr.RawValue), NoErr)

\* Mutant: the error of json.Unmarshal is an error at every HTTP status.
NotJson_AnyCode(err, code) == err

\* Mutant: the error of json.Unmarshal is dropped.
NotJson_Never(err, code) == FALSE

\* `if err != nil && response.StatusCode == 200`
NotJson(err, code) == err /\ code = 200

DecodeResponse(r) ==
    LET d == DecodeEnvelope(r.body) IN
    IF NotJson(d.err, r.code) THEN FailWith(r, ErrNotJson)
    ELSE IF r.code >= 400 \/ d.jr.Status # 0 THEN FailWith(r, parseError(r.code, d.jr))
    ELSE Succeed(d.jr)

\* isRedirect
isRedirect(r) == r.code = 302 \/ r.code = 303

\* Whether http.Client.Do treats this answer as a redirect of its own:
\* always for a GET, for other methods in the later libraries.
ClientRedirects(m, r) == isRedirect(r) /\ (m = "GET" \/ followsAll)

\* A redirect of its own without Location: Do returns the error
\* "<code> response missing Location header" where the library requires the
\* header; where it does not, the response is handed back as it is.
ClientRejects(m, r) == ClientRedirects(m, r) /\ ~r.loc /\ locationRequired

\* Whether http.Client.Do follows this answer itself and sends a GET to its
\* Location.
ClientFollows(m, r) == ClientRedirects(m, r) /\ r.loc

\* Mutant: http.Client.Do allows itself one request more.
ClientGivesUp_Late(h) == h >= ClientMaxRequests + 1

\* http.Client.Do stops following redirects after ClientMaxRequests requests
\* and returns an error.
ClientGivesUp(h) == h >= ClientMaxRequests

Request(m, u, by) == [method |-> m, url |-> u, by |-> by]

(***************************************************************************)
(* do(): the method test, then the first request of doInternal.            *)
(***************************************************************************)
\* Mutant: do() passes every method on to doInternal.
InvalidMethod_Never(m) == FALSE

\* `if method != "GET" && method != "POST" && method != "DELETE"`
InvalidMethod(m) == m # "GET" /\ m # "POST" /\ m # "DELETE"

DoBody(m) ==
    /\ tpc \in {"idle", "done"}
    /\ IF InvalidMethod(m)
       THEN /\ tpc' = "done"
            /\ sent' = <<>>
            /\ result' = Result(<<>>, NilValue, ErrInvalidMethod(m))
            /\ hops' = 0
       ELSE /\ tpc' = "wait"
            /\ sent' = <<Request(m, "url", "transport")>>
            /\ result' = NoResult
            /\ hops' = 1
    /\ method' = m
    /\ depth' = 0
    /\ first' = NoResponse
    /\ last' = NoResponse
    /\ decoded' = NoResponse
    /\ UNCHANGED <<followsAll, locationRequired>>

\* do() called on the transport itself.
DoCall(m) == DoBody(m) /\ UNCHANGED <<driverVars, pureVars>>

\* Mutant: the follow-up request of doInternal repeats the method and URL of
\* the redirected request.
FollowUp_Repeat(m, r) == Request(m, "url", "transport")

\* `return w.doInternal(nil, "GET", url.String())`
FollowUp(m, r) == Request("GET", "location", "transport")

(***************************************************************************)
(* The server answers the request on the wire; http.Client.Do follows the  *)
(* redirect or hands the response to doInternal, which follows the         *)
(* redirect of a POST itself or decodes the body and returns.              *)
(***************************************************************************)
ServerBody(r) ==
    /\ tpc = "wait"
    /\ first' = IF first = NoResponse THEN r ELSE first
    /\ last' = r
    /\ IF ClientRejects(sent[Len(sent)].method, r)
       THEN /\ tpc' = "done"
            /\ result' = Result(<<>>, NilValue, ErrMissingLocation(r.code))
            /\ UNCHANGED <<sent, hops, depth, method, decoded>>
       ELSE IF ClientFollows(sent[Len(sent)].method, r)
       THEN IF ClientGivesUp(hops)
            THEN /\ tpc' = "done"
                 /\ result' = Result(<<>>, NilValue, ErrTooManyRedirects)
                 /\ UNCHANGED <<sent, hops, depth, method, decoded>>
            ELSE /\ sent' = Append(sent, Request("GET", "location", "client"))
                 /\ hops' = hops + 1
                 /\ UNCHANGED <<tpc, result, depth, method, decoded>>
       ELSE IF method = "POST" /\ isRedirect(r)
       THEN IF ~r.loc
            THEN /\ tpc' = "done"
                 /\ result' = Result(<<>>, NilValue, ErrNoLocation)
                 /\ UNCHANGED <<sent, hops, depth, method, decoded>>
            ELSE /\ sent' = Append(sent, FollowUp(method, r))
                 /\ method' = sent'[Len(sent')].method
                 /\ depth' = depth + 1
                 /\ hops' = 1
                 /\ UNCHANGED <<tpc, result, decoded>>
       ELSE /\ tpc' = "done"
            /\ decoded' = r
            /\ result' = DecodeResponse(r)
            /\ UNCHANGED <<sent, hops, depth, method>>
    /\ UNCHANGED <<followsAll, locationRequired>>

ServerRespond(r) == ServerBody(r) /\ UNCHANGED <<driverVars, pureVars>>

\* The transport alone, against any server, with either behaviour of the
\* HTTP client library.
InitTransport ==
    /\ active = {1}
    /\ InitDrivers
    /\ target = "chrome_rb"
    /\ cfg = [logFile |-> FALSE, logPath |-> FALSE, deleteProfile |-> FALSE]
    /\ followsAll \in BOOLEAN
    /\ locationRequired \in BOOLEAN
    /\ ~followsAll => locationRequired
    /\ TransportIdle
    /\ PureIdle

NextTransport ==
    \/ \E m \in Methods : DoCall(m)
    \/ tpc = "wait" /\ \E r \in Responses : ServerRespond(r)

TransportSpec == InitTransport /\ [][NextTransport]_vars

\* The transport against a server that answers every request it receives,
\* with any status code, with or without Location, and with one of the two
\* bodies of RedirectBodies (what a body holds has no part in which requests
\* are sent).
PlainResponses == {r \in Responses : r.body \in RedirectBodies}

NextAnswered ==
    \/ \E m \in Methods : DoCall(m)
    \/ tpc = "wait" /\ \E r \in PlainResponses : ServerRespond(r)

ServerAnswers == WF_vars(\E r \in PlainResponses : ServerRespond(r))

AnsweredSpec == InitTransport /\ [][NextAnswered]_vars /\ ServerAnswers

(***************************************************************************)
(* Sessions and handles.  newSession makes the Session from the session id *)
(* do() returns; every command has a value receiver (`func (s Session)`),  *)
(* puts s.Id in the URL and drops the session id do() returns; a handle    *)
(* holds a pointer to the receiver's copy of the Session.                  *)
(***************************************************************************)
\* The commands of a Session: one per method, Delete, and the two kinds
\* that return a handle.
SessionOps ==
    { [name |-> "Session.Url", m |-> "POST", makes |-> "none"],
      [name |-> "Session.GetUrl", m |-> "GET", makes |-> "none"],
      [name |-> "Session.Delete", m |-> "DELETE", makes |-> "none"],
      [name |-> "Session.WindowHandle", m |-> "GET", makes |-> "window"],
      [name |-> "Session.FindElement", m |-> "POST", makes |-> "element"] }

\* The commands of a WindowHandle and of a WebElement.
HandleOps ==
    { [name |-> "WindowHandle.SetSize", on |-> "window", m |-> "POST", makes |-> "none"],
      [name |-> "WindowHandle.GetSize", on |-> "window", m |-> "GET", makes |-> "none"],
      [name |-> "WebElement.Click", on |-> "element", m |-> "POST", makes |-> "none"],
      [name |-> "WebElement.FindElement", on |-> "element", m |-> "POST",
       makes |-> "element"] }

Makes(op) ==
    IF \E o \in SessionOps \cup HandleOps : o.name = op
    THEN (CHOOSE o \in SessionOps \cup HandleOps : o.name = op).makes
    ELSE "none"

\* `WindowHandle{&s, id}` / `WebElement{&s, id}` / `WebElement{e.s, id}`:
\* the handle refers to a Session with this Id.
Handle(kind, id) == [kind |-> kind, Id |-> id]

\* json.Unmarshal(data, &capabilities) in newSession fails on an empty text
\* and on a JSON value that is neither an object nor null.
CapabilitiesDecodeFails(value) ==
    value = NilValue \/ value[2].k \in {"string", "number"}

\* Mutant: a command stores the session id do() returned in the Session.
IdAfterCommand_Returned(id, returned) == returned

\* `_, data, err := s.wd.do(...)`: the session id do() returns is dropped,
\* and the receiver is a copy.
IdAfterCommand(id, returned) == id

\* What the library function under way does when do() has returned.
ReturnToCaller(res) ==
    /\ caller' = "none"
    /\ pathId' = pathId
    /\ IF caller = "NewSession"
       THEN /\ session' = IF res.err = NoErr /\ ~CapabilitiesDecodeFails(res.value)
                          THEN [Id |-> res.sid]
                          ELSE session
            /\ handles' = handles
       ELSE /\ session' = [session EXCEPT !.Id = IdAfterCommand(@, res.sid)]
            /\ handles' = IF Makes(caller) # "none" /\ res.err = NoErr
                          THEN handles \cup {Handle(Makes(caller), pathId)}
                          ELSE handles

\* The driver's NewSession: w.do(p, "POST", "/session").
NewSessionCall ==
    /\ session = NoSession
    /\ DoBody("POST")
    /\ caller' = "NewSession"
    /\ pathId' = <<>>
    /\ UNCHANGED <<session, handles>>
    /\ UNCHANGED <<driverVars, commandError, errorText, prefs, fuser, profileErr, xpi,
                   profileStage, profileRet, extracted>>

\* A command on the Session: s.wd.do(p, m, "/session/%s/...", s.Id).
SessionCommand(op) ==
    /\ session # NoSession
    /\ DoBody(op.m)
    /\ caller' = op.name
    /\ pathId' = session.Id
    /\ UNCHANGED <<session, handles>>
    /\ UNCHANGED <<driverVars, commandError, errorText, prefs, fuser, profileErr, xpi,
                   profileStage, profileRet, extracted>>

\* A command on a handle: h.s.wd.do(p, m, "/session/%s/...", h.s.Id, h.id).
HandleCommand(h, op) ==
    /\ h \in handles /\ h.kind = op.on
    /\ DoBody(op.m)
    /\ caller' = op.name
    /\ pathId' = h.Id
    /\ UNCHANGED <<session, handles>>
    /\ UNCHANGED <<driverVars, commandError, errorText, prefs, fuser, profileErr, xpi,
                   profileStage, profileRet, extracted>>

\* GetCurrentWindowHandle and WebElementFromId make a handle without a
\* request.
DeriveHandle(kind) ==
    /\ session # NoSession /\ tpc \in {"idle", "done"}
    /\ handles' = handles \cup {Handle(kind, session.Id)}
    /\ UNCHANGED <<session, caller, pathId>>
    /\ UNCHANGED <<driverVars, transportVars, commandError, errorText, prefs, fuser,
                   profileErr, xpi, profileStage, profileRet, extracted>>

\* The server answers; when that ends do(), the library function returns.
SessionRespond(r) ==
    /\ ServerBody(r)
    /\ IF tpc' = "done" THEN ReturnToCaller(result') ELSE UNCHANGED sessionVars
    /\ UNCHANGED <<driverVars, commandError, errorText, prefs, fuser, profileErr, xpi,
                   profileStage, profileRet, extracted>>

\* The answers of the server in a session: success and failure, with and
\* without a session id of its own, and redirects.
SessionBodies ==
    {Body("invalid", <<>>, [k |-> "absent", n |-> 0], AbsentValue)}
    \cup {Body("object", sid, st, v) :
             sid \in RawSessionIds,
             st \in {[k |-> "int", n |-> 0], [k |-> "int", n |-> 7]},
             v \in {AbsentValue, RawValue("null", "a", "a", "a"),
                    RawValue("object", "a", "a", "a")}}

SessionResponses ==
    {Response(c, FALSE, b) : c \in {200, 500}, b \in SessionBodies}
    \cup {Response(c, l, b) : c \in RedirectCodes, l \in BOOLEAN, b \in RedirectBodies}

NextSession ==
    \/ NewSessionCall
    \/ \E op \in SessionOps : SessionCommand(op)
    \/ \E h \in handles : \E op \in HandleOps : HandleCommand(h, op)
    \/ \E kind \in {"window", "element"} : DeriveHandle(kind)
    \/ \E r \in SessionResponses : SessionRespond(r)

SessionSpec == InitTransport /\ [][NextSession]_vars

(***************************************************************************)
(* CommandError.Error().  A text is the sequence of the pieces it was put  *)
(* together from; an empty string adds no piece, a number adds its decimal *)
(* digits.                                                                 *)
(***************************************************************************)
\* Largest StatusCode Error() is called with (the smallest is -2).
MaxCode == 35

\* The keys of statusCodeStrings.
KnownStatusCodes == {0, 6, 7, 8, 9, 10, 11, 12, 13, 15, 17, 19, 21, 23, 24, 25, 26, 27, 28, 29, 30, 31, 32, 33, 34}

\* statusCodeStrings[c], for c among its keys.
statusCodeStrings(c) ==
    CASE c = 0 ->
           "The command executed successfully."
      [] c = 6 ->
           "A session is either terminated or not started."
      [] c = 7 ->
           "An element could not be located on the page using the given search parameters."
      [] c = 8 ->
           "A request to switch to a frame could not be satisfied because the frame could not be found."
      [] c = 9 ->
           "The requested resource could not be found, or a request was received using an HTTP method that is not supported by the mapped resource."
      [] c = 10 ->
           "An element command failed because the referenced element is no longer attached to the DOM."
      [] c = 11 ->
           "An element command could not be completed because the element is not visible on the page."
      [] c = 12 ->
           "An element command could not be completed because the element is in an invalid state (e.g. attempting to click a disabled element)."
      [] c = 13 ->
           "An unknown server-side error occurred while processing the command."
      [] c = 15 ->
           "An attempt was made to select an element that cannot be selected."
      [] c = 17 ->
           "An error occurred while executing user supplied JavaScript."
      [] c = 19 ->
           "An error occurred while searching for an element by XPath."
      [] c = 21 ->
           "An operation did not complete before its timeout expired."
      [] c = 23 ->
           "A request to switch to a different window could not be satisfied because the window could not be found."
      [] c = 24 ->
           "An illegal attempt was made to set a cookie under a different domain than the current page."
      [] c = 25 ->
           "A request to set a cookie's value could not be satisfied."
      [] c = 26 ->
           "A modal dialog was open, blocking this operation."
      [] c = 27 ->
           "An attempt was made to operate on a modal dialog when one was not open."
      [] c = 28 ->
           "A script did not complete before its timeout expired."
      [] c = 29 ->
           "The coordinates provided to an interactions operation are invalid."
      [] c = 30 ->
           "IME was not available."
      [] c = 31 ->
           "An IME engine could not be started."
      [] c = 32 ->
           "Argument was an invalid selector (e.g. XPath/CSS)."
      [] c = 33 ->
           "A new session could not be created."
      [] c = 34 ->
           "Target provided for a move action is out of bounds."

Str(x) == IF x = "" THEN <<>> ELSE <<x>>

Digit(d) == <<"0", "1", "2", "3", "4", "5", "6", "7", "8", "9">>[d + 1]

\* The decimal digits fmt's %d (strconv.Itoa) writes for n.
RECURSIVE Itoa(_)
Itoa(n) ==
    IF n < 0 THEN <<"-">> \o Itoa(0 - n)
    ELSE IF n < 10 THEN <<Digit(n)>>
    ELSE Itoa(n \div 10) \o <<Digit(n % 10)>>

\* Mutant: the separator is appended whether or not there is a category.
ErrorPrefix_Always(type) == <<type, ": ">>

\* `m := e.ErrorType; if m != "" { m += ": " }`
ErrorPrefix(type) == IF type # "" THEN <<type, ": ">> ELSE <<>>

\* func (e CommandError) Error() string
Error(e) ==
    IF e.StatusCode = -1
    THEN ErrorPrefix(e.ErrorType) \o <<"status code not specified">>
    ELSE IF e.StatusCode \in KnownStatusCodes
    THEN ErrorPrefix(e.ErrorType) \o <<statusCodeStrings(e.StatusCode), ": ">>
            \o Str(e.Message)
    ELSE ErrorPrefix(e.ErrorType) \o <<"unknown status code (">> \o Itoa(e.StatusCode)
            \o <<"): ">> \o Str(e.Message)

\* The errors Error() is called on: any code, with and without a category and
\* a message.
CommandErrors ==
    [StatusCode : -2 .. MaxCode,
     ErrorType : {"", "500: Failed Command", "Unknown error"},
     Message : {"", "m"}]

ErrorCall(e) ==
    /\ commandError' = e
    /\ errorText' = Error(e)
    /\ UNCHANGED <<prefs, fuser, profileErr, xpi, profileStage, profileRet, extracted,
                   sessionVars>>
    /\ UNCHANGED <<driverVars, transportVars>>

\* The library with no driver started and no request sent.
InitLibrary ==
    /\ active = {1}
    /\ InitDrivers
    /\ target = "chrome_rb"
    /\ cfg = [logFile |-> FALSE, logPath |-> FALSE, deleteProfile |-> FALSE]
    /\ followsAll = FALSE
    /\ locationRequired = TRUE
    /\ TransportIdle
    /\ PureIdle

NextError == \E e \in CommandErrors : ErrorCall(e)

ErrorSpec == InitLibrary /\ [][NextError]_vars

(***************************************************************************)
(* createTempProfile, the part that writes user.js: one statement per      *)
(* entry of the preference map, in the order Go's map iteration yields     *)
(* them.  Texts are sequences of characters.  The results of WriteString   *)
(* are dropped by the code.                                                *)
(***************************************************************************)
NL == "\n"
BS == "\\"

\* Keys and values of the preference maps given to createTempProfile.
PrefKeys == { <<"k">>, <<"p", ".", "q">>, <<"k", Q>> }
PrefStrings == { <<>>, <<"a">>, <<"a", " ", "b">>, <<"a", Q, "b">>, <<BS>>,
                 <<"a", NL, "b">> }
PrefInts == {-12, 0, 7}

BoolPref(b) == [t |-> "bool", b |-> b, n |-> 0, s |-> <<>>]
IntPref(n) == [t |-> "int", b |-> FALSE, n |-> n, s |-> <<>>]
StringPref(x) == [t |-> "string", b |-> FALSE, n |-> 0, s |-> x]
\* A value of any other Go type (a float64, a slice, nil).
OtherPref == [t |-> "other", b |-> FALSE, n |-> 0, s |-> <<>>]

PrefValues ==
    {BoolPref(b) : b \in BOOLEAN} \cup {IntPref(n) : n \in PrefInts}
        \cup {StringPref(x) : x \in PrefStrings} \cup {OtherPref}

PrefMaps == UNION {[S -> PrefValues] : S \in SUBSET PrefKeys}

\* The orders `for k, i := range prefs` can visit the keys in.
Orders(S) ==
    {o \in [1 .. Cardinality(S) -> S] :
        \A a, b \in 1 .. Cardinality(S) : a # b => o[a] # o[b]}

\* "user_pref(\"" + k + "\", "
StatementOpen(k) ==
    <<"u", "s", "e", "r", "_", "p", "r", "e", "f", "(", Q>> \o k \o <<Q, ",", " ">>

\* The switch on the value's type: true / false, strconv.Itoa(x),
\* "\"" + x + "\"".
ValueText(v) ==
    CASE v.t = "bool" -> IF v.b THEN <<"t", "r", "u", "e">>
                         ELSE <<"f", "a", "l", "s", "e">>
      [] v.t = "int" -> Itoa(v.n)
      [] v.t = "string" -> <<Q>> \o v.s \o <<Q>>

\* ");\n"
StatementClose == <<")", ";", NL>>

Supported(v) == v.t \in {"bool", "int", "string"}

\* What the loop has written when it ends: it returns in the middle of the
\* statement of the first value of an unsupported type.
RECURSIVE UserJs(_, _)
UserJs(p, order) ==
    IF order = <<>> THEN <<>>
    ELSE LET k == Head(order) IN
         IF Supported(p[k])
         THEN StatementOpen(k) \o ValueText(p[k]) \o StatementClose
                  \o UserJs(p, Tail(order))
         ELSE StatementOpen(k)

\* Mutant: the error does not say which key.
ErrPrefType_NoKey(k) == <<cpferr, "unexpected preference type: ">>

\* cpferr + "unexpected preference type: " + k
ErrPrefType(k) == <<cpferr, "unexpected preference type: ">> \o k

RECURSIVE ProfileError(_, _)
ProfileError(p, order) ==
    IF order = <<>> THEN ErrNil
    ELSE IF Supported(p[Head(order)]) THEN ProfileError(p, Tail(order))
    ELSE ErrPrefType(Head(order))

(***************************************************************************)
(* createTempProfile, whole: the temporary directory, the extension        *)
(* archive (install.rdf, then every entry through writeExtensionFile),     *)
(* then user.js.  An archive is the sequence of its entries; a call meets  *)
(* at most one operating-system fault, at the first operation of the kind  *)
(* named.                                                                  *)
(***************************************************************************)
\* Entries of the archive (zr.File) in a call.
MaxEntries == 2

\* install.rdf: with an id, with an empty or missing id, or not XML.
RdfEntry(r) == [name |-> "install.rdf", dir |-> FALSE, rdf |-> r, parent |-> ""]
DirEntry == [name |-> "d/", dir |-> TRUE, rdf |-> "none", parent |-> ""]
FileEntry == [name |-> "d/f", dir |-> FALSE, rdf |-> "none", parent |-> "d/"]
ArchiveEntries == {RdfEntry(r) : r \in {"id", "empty", "badxml"}} \cup {DirEntry, FileEntry}

Archives == UNION {[1 .. n -> ArchiveEntries] : n \in 0 .. MaxEntries}

Faults == {"none", "TempDir", "MkdirExts", "OpenReader", "RdfOpen", "RdfRead",
           "MkdirExt", "EntryOpen", "EntryMkdir", "EntryCreate", "EntryCopy",
           "UserJsOpen"}

\* `if f.Name == "install.rdf"`: the first entry of that name, 0 when none.
RdfIndex(es) ==
    IF \E a \in 1 .. Len(es) : es[a].name = "install.rdf"
    THEN Min({a \in 1 .. Len(es) : es[a].name = "install.rdf"})
    ELSE 0

\* installRDF.Description.Id after xml.Unmarshal; extName stays "" when the
\* loop finds no install.rdf.
ExtName(es) == IF RdfIndex(es) # 0 /\ es[RdfIndex(es)].rdf = "id" THEN "id" ELSE ""

\* Mutant: the extension directory is new whatever its name.
ExtDirExists_Never(extName) == FALSE

\* filepath.Join(extsPath, "") is extsPath, which os.Mkdir made before.
ExtDirExists(extName) == extName = ""

\* The error of the steps before the entries are written, with the step it
\* comes from; ErrNil when they all succeed.
ArchiveStep(es, fault) ==
    LET i == RdfIndex(es) IN
    IF fault = "TempDir" THEN <<"TempDir", Err(cpferr, "<TempDir error>")>>
    ELSE IF fault = "MkdirExts" THEN <<"MkdirExts", Err(cpferr, "<mkdir error>")>>
    ELSE IF fault = "OpenReader" THEN <<"OpenReader", Err(cpferr, "<zip error>")>>
    ELSE IF i # 0 /\ fault = "RdfOpen" THEN <<"RdfOpen", Err(cpferr, "<open entry error>")>>
    ELSE IF i # 0 /\ fault = "RdfRead" THEN <<"RdfRead", Err(cpferr, "<read error>")>>
    ELSE IF i # 0 /\ es[i].rdf = "badxml" THEN <<"Unmarshal", Err(cpferr, "<xml error>")>>
    ELSE IF i # 0 /\ es[i].rdf = "empty"
    THEN <<"Id", Err(cpferr, "unable to find extension Id from install.rdf")>>
    ELSE IF ExtDirExists(ExtName(es)) \/ fault = "MkdirExt"
    THEN <<"MkdirExt", Err(cpferr, "<mkdir error>")>>
    ELSE <<"entries", ErrNil>>

\* writeExtensionFile on entry f with the entries in `tree` written before:
\* the error it returns.  A directory that exists cannot be made again, a
\* file cannot be created in a directory that does not exist.
WriteExtensionError(f, tree, fault) ==
    IF fault = "EntryOpen" THEN Err(weferr, "<open entry error>")
    ELSE IF f.dir
    THEN (IF fault = "EntryMkdir" \/ \E a \in 1 .. Len(tree) : tree[a] = f.name
          THEN Err("", "<mkdir error>") ELSE ErrNil)
    ELSE IF fault = "EntryCreate"
            \/ (f.parent # "" /\ ~\E a \in 1 .. Len(tree) : tree[a] = f.parent)
    THEN Err(weferr, "<open file error>")
    ELSE IF fault = "EntryCopy" THEN Err(weferr, "<copy error>")
    ELSE ErrNil

\* What writeExtensionFile leaves on disk: the directory it made, the file
\* it created (also when copying into it failed).
WriteExtensionTree(f, tree, fault) ==
    IF WriteExtensionError(f, tree, fault) = ErrNil
           \/ WriteExtensionError(f, tree, fault) = Err(weferr, "<copy error>")
    THEN (IF \E a \in 1 .. Len(tree) : tree[a] = f.name THEN tree ELSE Append(tree, f.name))
    ELSE tree

\* `for _, f := range zr.File { if err = writeExtensionFile(f, extPath) ... }`
RECURSIVE Extract(_, _, _)
Extract(es, tree, fault) ==
    IF es = <<>> THEN [err |-> ErrNil, tree |-> tree]
    ELSE LET e == WriteExtensionError(Head(es), tree, fault)
             t == WriteExtensionTree(Head(es), tree, fault)
         IN IF e # ErrNil THEN [err |-> e, tree |-> t]
            ELSE Extract(Tail(es), t, fault)

\* One call of createTempProfile per behaviour.
CreateTempProfile(es, fault, p, order) ==
    LET pre == ArchiveStep(es, fault)
        ex == Extract(es, <<>>, fault)
        stage == IF pre[2] # ErrNil THEN pre[1]
                 ELSE IF ex.err # ErrNil THEN "entries"
                 ELSE IF fault = "UserJsOpen" THEN "UserJsOpen"
                 ELSE IF ProfileError(p, order) # ErrNil THEN "prefs"
                 ELSE "done"
    IN
    /\ profileStage = "none"
    /\ prefs' = p
    /\ xpi' = [entries |-> es, fault |-> fault]
    /\ profileStage' = stage
    /\ extracted' = IF pre[2] # ErrNil THEN <<>> ELSE ex.tree
    /\ fuser' = IF stage \in {"prefs", "done"} THEN UserJs(p, order) ELSE NoText
    /\ profileErr' =
          CASE pre[2] # ErrNil -> pre[2]
            [] pre[2] = ErrNil /\ ex.err # ErrNil -> ex.err
            [] stage = "UserJsOpen" -> Err(cpferr, "<open file error>")
            [] OTHER -> ProfileError(p, order)
    /\ profileRet' = IF stage = "done" THEN "<profilePath>" ELSE ""
    /\ UNCHANGED <<commandError, errorText, sessionVars>>
    /\ UNCHANGED <<driverVars, transportVars>>

\* An archive as the package ships it: install.rdf with an id, and content.
GoodArchive == <<RdfEntry("id"), DirEntry>>

SmallPrefMaps == {p \in PrefMaps : DOMAIN p \subseteq {<<"k">>}}

\* The calls of a behaviour: every preference map with the good archive, and
\* every archive and fault with a map of at most one entry.
CallWithPrefs ==
    /\ profileStage = "none"
    /\ \E p \in PrefMaps : \E o \in Orders(DOMAIN p) :
           CreateTempProfile(GoodArchive, "none", p, o)

CallWithArchive ==
    /\ profileStage = "none"
    /\ \E es \in Archives : \E fault \in Faults : \E p \in SmallPrefMaps :
           \E o \in Orders(DOMAIN p) : CreateTempProfile(es, fault, p, o)

NextPrefs == CallWithPrefs \/ CallWithArchive

PrefsSpec == InitLibrary /\ [][NextPrefs]_vars

(***************************************************************************)
(* Vocabulary of the properties.                                           *)
(***************************************************************************)
\* The driver is running: d.cmd refers to a child that a Start() launched
\* and that no Stop() has cleared since.
Running(i) == cmd[i] # Nil /\ procs[cmd[i]].state # "unstarted"

IsChrome == target \in {"chrome", "chrome_rb"}

\* A whole call of ChromeDriver.Start that is rejected at once, or the first
\* step of one that goes on.
ChromeStartCall(i) == ChromeStart(i) \/ ChromeStartRB(i)

StopCall(i) == ChromeStop(i) \/ FirefoxStop(i)

ErrNotRunning == IF IsChrome THEN ErrChromeNotRunning ELSE ErrFirefoxNotRunning

StartReturned(i) == call[i].op = "Start" /\ call[i].returned
StopReturned(i) == call[i].op = "Stop" /\ call[i].returned

\* The driver was started and not stopped since: d.cmd refers to a child that
\* a Start() launched, or the call before this one was a Start() that launched
\* a child.
Started(i) == Running(i) \/ (call[i].op = "Start" /\ call[i].launched # Nil)

\* C1 (as claimed): ChromeDriver.Start() on a driver that an earlier Start()
\* launched a child for, with no Stop() since, returns the 'already running'
\* error, launches no second child and leaves port, base URL and child
\* reference unchanged.
C1_StartWhileRunningRejected ==
    [][\A i \in Insts :
          (IsChrome /\ Started(i) /\ ChromeStartCall(i)) =>
             /\ call'[i].returned
             /\ call'[i].err = ErrChromeRunning
             /\ call'[i].launched = Nil
             /\ procs' = procs
             /\ starts' = starts
             /\ Port'[i] = Port[i]
             /\ url'[i] = url[i]
             /\ cmd'[i] = cmd[i]
             /\ logFile'[i] = logFile[i]]_vars

\* C2 (as claimed): FirefoxDriver.Start() on a running driver returns an error
\* and creates no second profile directory and launches no second browser.
C2_FirefoxStartWhileRunningRejected ==
    [][\A i \in Insts :
          (target = "firefox" /\ Running(i) /\ FirefoxStart(i)) =>
             /\ call'[i].returned
             /\ call'[i].err # ErrNil
             /\ call'[i].profile = Nil
             /\ call'[i].launched = Nil
             /\ dirs' = dirs
             /\ procs' = procs]_vars

\* C3: Stop() on a driver that is not running (d.cmd is nil: never started,
\* or the last call was a Stop) returns the 'not running' error, signals no
\* process, closes no file and deletes no directory.
C3_StopWhenNotRunning ==
    [][\A i \in Insts :
          ((cmd[i] = Nil \/ call[i].op \in {"none", "Stop"}) /\ StopCall(i)) =>
             /\ call'[i].returned
             /\ call'[i].err = ErrNotRunning
             /\ call'[i].signalled = Nil
             /\ call'[i].closed = Nil
             /\ call'[i].removed = Nil
             /\ procs' = procs
             /\ files' = files
             /\ dirs' = dirs
             /\ ~crashed']_vars

\* C3 witness: a driver that was started and stopped before (its child was
\* signalled, its profile is still on disk) has answered a further Stop()
\* with the 'not running' error.
C3_Witness ==
    \E i \in Insts :
        /\ StopReturned(i) /\ call[i].err = ErrNotRunning
        /\ \E k \in Ids : procs[k].state \in {"signalled", "exited"}

\* C4: Stop() on a running driver returns nil and leaves the driver not
\* running, whether or not the signal is delivered; a Stop() right after it
\* returns the 'not running' error and a Start() after it is not rejected as
\* already running.
C4_StopOnRunning ==
    [][\A i \in Insts :
          /\ (Running(i) /\ StopCall(i)) =>
                /\ call'[i].returned
                /\ call'[i].err = ErrNil
                /\ cmd'[i] = Nil
                /\ ~crashed'
          /\ (StopReturned(i) /\ call[i].err = ErrNil /\ StopCall(i)) =>
                call'[i].err = ErrNotRunning
          /\ (StopReturned(i) /\ call[i].err = ErrNil /\ call'[i].op = "Start"
                 /\ (ChromeStartCall(i) \/ FirefoxStart(i))) =>
                call'[i].err # ErrChromeRunning]_vars

\* C4 witness: Stop() has returned nil although its signal was not delivered
\* (the child it signalled is still alive), with the log file closed.
C4_Witness ==
    \E i \in Insts :
        /\ StopReturned(i) /\ call[i].err = ErrNil /\ cmd[i] = Nil
        /\ call[i].signalled # Nil /\ procs[call[i].signalled].state = "live"
        /\ call[i].closed # Nil /\ files[call[i].closed] = "closed"

\* C5 (as claimed): a Start() that fails to launch the child leaves the driver
\* not marked running.
C5_FailedLaunchNotRunning ==
    \A i \in Insts :
        (StartReturned(i) /\ call[i].err \in {ErrChromeLaunch, ErrFirefoxLaunch}) =>
            cmd[i] = Nil

\* C6: Start() returns nil only after a connect to 127.0.0.1:Port succeeded
\* following the launch of the child; the probe gives up with the timeout
\* error once a connect fails with more than StartTimeout elapsed, and never
\* goes on polling after that.
C6_StartNilOnlyAfterProbe ==
    \A i \in Insts :
        /\ (StartReturned(i) /\ call[i].err = ErrNil) =>
              /\ call[i].connected
              /\ call[i].launched # Nil
              /\ procs[call[i].launched].state \notin {"none", "unstarted"}
        /\ (StartReturned(i) /\ call[i].err = ErrProbeTimeout) =>
              /\ ~call[i].connected
              /\ call[i].launched # Nil
              /\ call[i].waited >= StartTimeout
        /\ pc[i] = "probe" =>
              /\ elapsed[i] <= StartTimeout
              /\ call[i].launched # Nil

\* C6 witness: a Start() has returned nil after a first connect failed and a
\* later one succeeded.
C6_Witness ==
    \E i \in Insts :
        /\ StartReturned(i) /\ call[i].err = ErrNil
        /\ call[i].connected /\ call[i].waited > 0

(***************************************************************************)
(* Properties of the transport.                                            *)
(***************************************************************************)
Done == tpc = "done"

\* The inner status the body of a response carries (0 when it carries none).
InnerStatus(r) ==
    IF r.body.json = "object" /\ r.body.status.k = "int" THEN r.body.status.n ELSE 0

IsCommandError(e) == e[1] = "*CommandError"

\* The session id a "sessionId" string of the envelope stands for: its text
\* without the quotes and braces; empty when the envelope has none.
ExpectedSessionId(raw) ==
    CASE raw = <<Q, "a", Q>> -> <<"a">>
      [] raw = <<Q, "{", "a", "}", Q>> -> <<"a">>
      [] OTHER -> <<>>

\* The value payload as it stands in the body (nothing when it has none).
ExpectedValue(v) == IF v = AbsentValue THEN NilValue ELSE <<"raw", v>>

\* A POST of the transport was answered with 302/303 and a Location.
PostRedirected ==
    /\ sent # <<>> /\ sent[1].method = "POST"
    /\ first # NoResponse /\ isRedirect(first) /\ first.loc

\* C7 (as claimed): after a POST answered with 302/303 exactly one follow-up
\* GET to the Location is sent, and what do() returns without error is decoded
\* from the answer to that GET.
C7_ExactlyOneFollowUp ==
    PostRedirected =>
       /\ Len(sent) = 2
       /\ sent[2].method = "GET" /\ sent[2].url = "location"
       /\ (Done /\ result.err = NoErr) =>
             (decoded = last /\ result = DecodeResponse(last))

\* After the redirected POST every request is a GET to the Location: the
\* second is sent by doInternal, once, where the HTTP client hands the
\* redirect of a POST back, and by the client where it follows it; every
\* later one is sent by the client.  What do() returns is decoded from the
\* last answer, which is no redirect, or it is an error with no session id
\* and no value after an answer that is a redirect.
FollowUps ==
    PostRedirected =>
       /\ Len(sent) >= 2
       /\ \A k \in 2 .. Len(sent) :
             sent[k].method = "GET" /\ sent[k].url = "location"
       /\ sent[2].by = (IF followsAll THEN "client" ELSE "transport")
       /\ \A k \in 3 .. Len(sent) : sent[k].by = "client"
       /\ depth = (IF followsAll THEN 0 ELSE 1)
       /\ Done =>
             \/ /\ decoded = last /\ ~isRedirect(last)
                /\ result = DecodeResponse(last)
             \/ /\ decoded = NoResponse /\ isRedirect(last)
                /\ result.err # NoErr /\ result.sid = <<>> /\ result.value = NilValue

\* The answer to a follow-up GET ends the call with no further request,
\* unless it is a 302/303 with a Location: then at most one further GET goes
\* out.
FurtherGet ==
    (PostRedirected /\ tpc = "wait") =>
        IF isRedirect(last') /\ last'.loc
        THEN sent' = sent \/ sent' = Append(sent, Request("GET", "location", "client"))
        ELSE tpc' = "done" /\ sent' = sent

\* C7 (amended): a POST answered with 302/303 and a Location is followed by a
\* GET to that Location, sent once by doInternal or by the HTTP client; a
\* further GET goes out only when the GET itself is answered with 302/303 and
\* a Location, and the result is decoded from the answer to the last GET,
\* never from a redirect.
C7_PostRedirectFollowed == []FollowUps /\ [][FurtherGet]_vars

\* C7 witness: the POST was answered 303 with an envelope of its own, the
\* single follow-up GET was answered with another session id, and that one
\* was returned.
C7_Witness ==
    /\ Done /\ ~followsAll /\ Len(sent) = 2 /\ sent[1].method = "POST"
    /\ first.code = 303 /\ first.body.json = "object"
    /\ sent[2] = Request("GET", "location", "transport")
    /\ decoded = last /\ decoded.code = 200
    /\ decoded.body.json = "object" /\ decoded.body.sid = <<Q, "a", Q>>
    /\ result.err = NoErr /\ result.sid = <<"a">>
    /\ result # DecodeResponse(first)

\* C8: a response with HTTP status >= 400 or a non-zero inner status gives a
\* non-nil error with an empty session id and a nil value; no result carries
\* both an error and a value.
C8_ErrorWithoutValue ==
    /\ (Done /\ decoded # NoResponse
             /\ (decoded.code >= 400 \/ InnerStatus(decoded) # 0)) =>
          /\ result.err # NoErr
          /\ result.sid = <<>>
          /\ result.value = NilValue
    /\ (Done /\ result.err # NoErr) =>
          (result.sid = <<>> /\ result.value = NilValue)

\* C8 witness: HTTP 200 with inner status 7, a session id and a value object
\* was answered with a CommandError and nothing else.
C8_Witness ==
    /\ Done /\ decoded # NoResponse /\ decoded.code = 200
    /\ InnerStatus(decoded) = 7 /\ decoded.body.sid = <<Q, "a", Q>>
    /\ decoded.body.value.k = "object"
    /\ IsCommandError(result.err) /\ result.sid = <<>> /\ result.value = NilValue

\* C9: HTTP 200 with an envelope of inner status 0 gives no error, the value
\* text as received and the envelope's session id (asserted where the envelope
\* has a string for it or none; a JSON null for it is left open).
C9_SuccessReturnsRawValue ==
    (Done /\ decoded # NoResponse /\ decoded.code = 200
          /\ decoded.body.json = "object" /\ decoded.body.status.k = "int"
          /\ decoded.body.status.n = 0) =>
       /\ result.err = NoErr
       /\ result.value = ExpectedValue(decoded.body.value)
       /\ decoded.body.sid # <<"n", "u", "l", "l">> =>
             result.sid = ExpectedSessionId(decoded.body.sid)

\* C9 witness: a success with a session id sent in braces and a string value.
C9_Witness ==
    /\ Done /\ decoded # NoResponse /\ decoded.code = 200
    /\ decoded.body.json = "object" /\ decoded.body.status = [k |-> "int", n |-> 0]
    /\ decoded.body.sid = <<Q, "{", "a", "}", Q>> /\ decoded.body.value.k = "string"
    /\ result = Result(<<"a">>, <<"raw", decoded.body.value>>, NoErr)

\* C10 (as claimed): the StatusCode of the error built from a non-zero inner
\* status N is N, whatever the HTTP status and the value.
C10_StatusCodeIsInnerStatus ==
    (Done /\ decoded # NoResponse /\ InnerStatus(decoded) # 0
          /\ IsCommandError(result.err)) =>
       result.err[2].StatusCode = InnerStatus(decoded)

(***************************************************************************)
(* Properties of CommandError.Error().                                     *)
(***************************************************************************)
\* Whether the text t begins with the pieces of p.
StartsWith(t, p) == Len(t) >= Len(p) /\ SubSeq(t, 1, Len(p)) = p

\* The text t without its first n pieces.
Drop(t, n) == SubSeq(t, n + 1, Len(t))

\* The number a sequence of decimal digits with an optional sign stands for.
RECURSIVE Atoi(_)
Atoi(ds) ==
    IF ds = <<>> THEN 0
    ELSE IF Head(ds) = "-" THEN 0 - Atoi(Tail(ds))
    ELSE Atoi(SubSeq(ds, 1, Len(ds) - 1)) * 10
            + (CHOOSE d \in 0 .. 9 : Digit(d) = ds[Len(ds)])

\* The pieces of a message.
MessageText(msg) == IF msg = "" THEN <<>> ELSE <<msg>>

\* C11: Error() renders a code of the table as the code's description, ": "
\* and the message (for 28 the script timeout text), every other code N but
\* -1 as "unknown status code (N): " and the message, and puts the category
\* and ": " in front exactly when the category is not empty.
C11_ErrorRendering ==
    errorText # NoText =>
       LET e == commandError
           prefixed == e.ErrorType # ""
           body == IF prefixed THEN Drop(errorText, 2) ELSE errorText
       IN
       /\ prefixed => StartsWith(errorText, <<e.ErrorType, ": ">>)
       /\ body # <<>> /\ body[1] \notin {"", ": "}
       /\ e.StatusCode \in KnownStatusCodes =>
             body = <<statusCodeStrings(e.StatusCode), ": ">> \o MessageText(e.Message)
       /\ e.StatusCode = 28 =>
             body[1] = "A script did not complete before its timeout expired."
       /\ (e.StatusCode \notin KnownStatusCodes /\ e.StatusCode # -1) =>
             \E n \in 1 .. Len(body) :
                /\ body[1] = "unknown status code ("
                /\ body[n] = "): "
                /\ Atoi(SubSeq(body, 2, n - 1)) = e.StatusCode
                /\ Drop(body, n) = MessageText(e.Message)

\* C11 witness: a script timeout with category and message, rendered.
C11_Witness ==
    /\ commandError = [StatusCode |-> 28, ErrorType |-> "500: Failed Command",
                       Message |-> "m"]
    /\ errorText = <<"500: Failed Command", ": ",
                     "A script did not complete before its timeout expired.", ": ", "m">>

(***************************************************************************)
(* Properties of the error classifier and of do().                         *)
(***************************************************************************)
\* Whether the body carries -1, as its inner status or as the statusCode of
\* its value object.
ServerSentMinusOne(r) ==
    \/ InnerStatus(r) = -1
    \/ r.body.json = "object" /\ r.body.value.k = "object"
          /\ r.body.value.statusCode = "n"

\* C12: HTTP status >= 400 with an envelope that is empty, undecodable or of
\* inner status zero gives an error of StatusCode -1, and an error has
\* StatusCode -1 only then or when the server sent -1.
C12_MinusOneWhenNoInnerStatus ==
    /\ (Done /\ decoded # NoResponse /\ decoded.code >= 400
             /\ InnerStatus(decoded) = 0) =>
          (IsCommandError(result.err) /\ result.err[2].StatusCode = -1)
    /\ (Done /\ IsCommandError(result.err) /\ result.err[2].StatusCode = -1) =>
          \/ decoded.code >= 400 /\ InnerStatus(decoded) = 0
          \/ ServerSentMinusOne(decoded)

\* C12 witness: HTTP 404 with a body that is no JSON gave an error of code -1.
C12_Witness ==
    /\ Done /\ decoded # NoResponse /\ decoded.code = 404
    /\ decoded.body.json = "invalid"
    /\ IsCommandError(result.err) /\ result.err[2].StatusCode = -1

\* The category the spec's table gives for an HTTP status.
ExpectedCategory(c) ==
    CASE c = 200 -> ""
      [] c = 400 -> "400: Missing Command Parameters"
      [] c = 404 -> "404: Unknown command/Resource Not Found"
      [] c = 405 -> "405: Invalid Command Method"
      [] c = 500 -> "500: Failed Command"
      [] c = 501 -> "501: Unimplemented Command"
      [] OTHER -> "Unknown error"

\* C13 (as claimed): the category of a classified error is the fixed
\* description of the HTTP status for 400, 404, 405, 500 and 501, empty for
\* 200 and "Unknown error" for every other HTTP status.
C13_CategoryFromHttpStatus ==
    (Done /\ IsCommandError(result.err)) =>
       result.err[2].ErrorType = ExpectedCategory(decoded.code)

\* A body json.Unmarshal does not accept for the envelope: no JSON, a JSON
\* value that is neither an object nor null, or an object whose status is no
\* integer.
NotAnEnvelope(b) ==
    \/ b.json \in {"invalid", "nonobject"}
    \/ b.json = "object" /\ b.status.k = "bad"

\* C14: HTTP 200 with a body that is not valid JSON for the envelope gives the
\* error 'error: response must be a JSON object', no session id and no value.
C14_NotJsonAt200 ==
    (Done /\ decoded # NoResponse /\ decoded.code = 200
          /\ NotAnEnvelope(decoded.body)) =>
       /\ result.err = ErrNotJson
       /\ result.sid = <<>>
       /\ result.value = NilValue

\* C14 witness: HTTP 200 with an object that has a session id, a value and a
\* status that is no integer was refused.
C14_Witness ==
    /\ Done /\ decoded # NoResponse /\ decoded.code = 200
    /\ decoded.body.json = "object" /\ decoded.body.status.k = "bad"
    /\ decoded.body.sid = <<Q, "a", Q>> /\ decoded.body.value.k = "string"
    /\ result = Result(<<>>, NilValue, ErrNotJson)

\* C15: do() with a method other than GET, POST or DELETE returns the error
\* 'invalid method: ' with the method, no session id and no value, and sends
\* no request; a request on the wire is a GET, a POST or a DELETE.
C15_InvalidMethodSendsNothing ==
    /\ (method \notin {"", "GET", "POST", "DELETE"}) =>
          /\ Done
          /\ sent = <<>>
          /\ hops = 0
          /\ result = Result(<<>>, NilValue, <<"invalid method: ", method>>)
    /\ \A k \in 1 .. Len(sent) : sent[k].method \in {"GET", "POST", "DELETE"}

\* C15 witness: do() was called with PUT and returned the error with nothing
\* sent.
C15_Witness ==
    /\ Done /\ method = "PUT" /\ sent = <<>>
    /\ result.err = <<"invalid method: ", "PUT">>

(***************************************************************************)
(* Properties of the port allocation and of the retry loops.               *)
(***************************************************************************)
\* The child and the profile a Start() call made were given the port p.
StartUsesPort(c, ps, ds, p) ==
    /\ c.launched # Nil => ps[c.launched].port = p
    /\ (c.profile # Nil /\ ds[c.profile].port # Nil) => ds[c.profile].port = p

\* C16: FirefoxDriver.Start called with a non-zero Port keeps that port, takes
\* no lock and scans nothing, and gives that port to the profile and the
\* child; called with Port = 0 it starts from 7055, and the port the scan
\* under the lock selects, and hands to the profile and the child, is never
\* below 7055.
C16_PortNotBelowBase ==
    [][\A i \in Insts :
          /\ (Port[i] # 0 /\ pc[i] = "idle" /\ call'[i].op = "Start"
                 /\ FirefoxStart(i)) =>
                /\ Port'[i] = Port[i]
                /\ pc'[i] # "lock"
                /\ ~call'[i].locked
                /\ lockHolder' = lockHolder
                /\ StartUsesPort(call'[i], procs', dirs', Port[i])
          /\ (Port[i] = 0 /\ pc[i] = "idle" /\ call'[i].op = "Start"
                 /\ FirefoxStart(i)) =>
                (Port'[i] = FirefoxBasePort /\ pc'[i] = "lock")
          /\ (pc[i] = "lock" /\ FirefoxLockStep(i)) =>
                /\ Port'[i] >= FirefoxBasePort
                /\ StartUsesPort(call'[i], procs', dirs', Port'[i])]_vars

\* C16 witness: an auto-selecting Start() found 7055 taken, selected the next
\* port and returned nil.
C16_Witness ==
    \E i \in Insts :
        /\ target = "firefox" /\ StartReturned(i) /\ call[i].err = ErrNil
        /\ call[i].locked /\ Port[i] > FirefoxBasePort
        /\ procs[call[i].launched].port = Port[i]

\* Instance i holds a port it selected under the lock: its last Start() call
\* took the lock, launched a child and returned, and no Stop() followed.
HoldsSelectedPort(i) ==
    /\ StartReturned(i) /\ call[i].locked /\ call[i].launched # Nil
    /\ cmd[i] = call[i].launched

\* C17 (as claimed): no two FirefoxDriver instances that selected their port
\* under the lock, whose Start() returned and that were not stopped since,
\* hold the same port.
C17_DistinctPortsUnderLock ==
    \A i, j \in Insts :
        (i # j /\ HoldsSelectedPort(i) /\ HoldsSelectedPort(j)) => Port[i] # Port[j]

(***************************************************************************)
(* C18: with Port = 0, while the listener on 127.0.0.1:7054 cannot be      *)
(* opened FirefoxDriver.Start tries again one interval later; once the     *)
(* time waited has reached LockPortTimeout it returns 'timeout expired     *)
(* trying to lock mutex port', having created no profile and launched no   *)
(* browser, and that error is returned in no other case.  Every lock wait  *)
(* ends: the call acquires the lock or returns that error (or the program  *)
(* has died of a panic in another goroutine's Stop).                       *)
(***************************************************************************)
LockWaitStep(i) ==
    (/\ pc[i] = "lock" /\ lockHolder # Free
     /\ <<pc'[i], elapsed'[i], call'[i]>> # <<pc[i], elapsed[i], call[i]>>) =>
        IF elapsed[i] < LockPortTimeout
        THEN /\ pc'[i] = "lock"
             /\ elapsed'[i] = elapsed[i] + 1
             /\ call'[i] = call[i]
             /\ UNCHANGED <<cmd, profilePath, procs, dirs, files, lockHolder, Port>>
        ELSE /\ pc'[i] = "idle"
             /\ call'[i].returned /\ call'[i].err = ErrLockTimeout
             /\ call'[i].profile = Nil /\ call'[i].launched = Nil
             /\ UNCHANGED <<cmd, profilePath, url, procs, dirs, files, lockHolder>>

LockTimeoutReturned(i) ==
    call[i].op = "Start" /\ call[i].returned /\ call[i].err = ErrLockTimeout

LockTimeoutOnlyAfterWait ==
    \A i \in Insts :
        LockTimeoutReturned(i) =>
            /\ call[i].waited = LockPortTimeout
            /\ ~call[i].locked
            /\ call[i].profile = Nil /\ call[i].launched = Nil

LockWaitBounded ==
    \A i \in Insts : pc[i] = "lock" => elapsed[i] <= LockPortTimeout

C18_LockWaitEnds ==
    /\ [][\A i \in Insts : LockWaitStep(i)]_vars
    /\ [](LockTimeoutOnlyAfterWait /\ LockWaitBounded)
    /\ \A i \in Insts : (pc[i] = "lock") ~> (pc[i] # "lock" \/ crashed)

\* Witness: a Start() call that waited LockPortTimeout for the lock another
\* holder kept, and returned the timeout error with nothing created.
C18_Witness ==
    \E i \in Insts :
        /\ LockTimeoutReturned(i)
        /\ call[i].waited = LockPortTimeout
        /\ lockHolder # Free
        /\ cmd[i] = Nil /\ profilePath[i] = Nil


(***************************************************************************)
(* C19: probePort on a port nothing listens on goes on polling while less  *)
(* than the timeout has passed and returns 'start failed: timeout expired' *)
(* at the first failed attempt made with the timeout reached, which is no  *)
(* earlier than the timeout and no later than one poll interval after it;  *)
(* an attempt made while a listener is on the port ends the probe at once, *)
(* so a listener that appears during the wait is found by the next         *)
(* attempt, one interval later at most, and the probe returns nil (or the  *)
(* error of closing the connection it opened).  Every probe ends.          *)
(***************************************************************************)
ProbePollStep(i) ==
    (/\ pc[i] = "probe"
     /\ <<pc'[i], elapsed'[i], call'[i]>> # <<pc[i], elapsed[i], call[i]>>) =>
        IF bound[Port[i]] # Free
        THEN /\ pc'[i] = "idle"
             /\ call'[i].returned /\ call'[i].connected
             /\ call'[i].err \in {ErrNil, ErrConnClose}
             /\ call'[i].waited = elapsed[i]
        ELSE IF elapsed[i] < StartTimeout
        THEN /\ pc'[i] = "probe"
             /\ elapsed'[i] = elapsed[i] + 1
             /\ call'[i] = call[i]
        ELSE /\ pc'[i] = "idle"
             /\ call'[i].returned /\ ~call'[i].connected
             /\ call'[i].err = ErrProbeTimeout
             /\ call'[i].waited = elapsed[i]
             /\ StartTimeout <= elapsed[i] /\ elapsed[i] <= StartTimeout + 1

C19_ProbeTiming ==
    /\ [][\A i \in Insts : ProbePollStep(i)]_vars
    /\ \A i \in Insts : (pc[i] = "probe") ~> (pc[i] # "probe" \/ crashed)

\* Witness: one probe has timed out on a port nothing listened on, after
\* exactly StartTimeout intervals, and another has connected to a listener
\* that appeared after its first attempt.
C19_Witness ==
    \E i, j \in Insts :
        /\ StartReturned(i) /\ call[i].err = ErrProbeTimeout
        /\ call[i].waited = StartTimeout /\ ~call[i].connected
        /\ StartReturned(j) /\ call[j].err = ErrNil
        /\ call[j].connected /\ call[j].waited = 1


(***************************************************************************)
(* A reader of user.js: statements of the form                             *)
(*     user_pref("<key>", <value>);                                        *)
(* one per line, where a value is true, false, a decimal integer or a      *)
(* string literal.  In a string literal a backslash takes the character    *)
(* after it literally (\n stands for a line break), the literal ends at    *)
(* the first quote that no backslash precedes, and it cannot hold a line   *)
(* break.                                                                  *)
(***************************************************************************)
NoParse == [ok |-> FALSE, s |-> <<>>, rest |-> <<>>]

\* The literal whose opening quote has been read; acc is its text so far.
RECURSIVE ParseLiteral(_, _)
ParseLiteral(t, acc) ==
    IF t = <<>> \/ Head(t) = NL THEN NoParse
    ELSE IF Head(t) = Q THEN [ok |-> TRUE, s |-> acc, rest |-> Tail(t)]
    ELSE IF Head(t) = BS
    THEN IF Len(t) < 2 \/ t[2] = NL THEN NoParse
         ELSE ParseLiteral(Drop(t, 2), Append(acc, IF t[2] = "n" THEN NL ELSE t[2]))
    ELSE ParseLiteral(Tail(t), Append(acc, Head(t)))

\* The longest run of sign and digit characters at the start of t.
RECURSIVE NumberRun(_)
NumberRun(t) ==
    IF t # <<>> /\ (Head(t) = "-" \/ \E d \in 0 .. 9 : Digit(d) = Head(t))
    THEN <<Head(t)>> \o NumberRun(Tail(t))
    ELSE <<>>

WellFormedNumber(ds) ==
    /\ ds # <<>> /\ ds # <<"-">>
    /\ \A a \in 2 .. Len(ds) : ds[a] # "-"

ParseValue(t) ==
    IF StartsWith(t, <<"t", "r", "u", "e">>)
    THEN [ok |-> TRUE, v |-> BoolPref(TRUE), rest |-> Drop(t, 4)]
    ELSE IF StartsWith(t, <<"f", "a", "l", "s", "e">>)
    THEN [ok |-> TRUE, v |-> BoolPref(FALSE), rest |-> Drop(t, 5)]
    ELSE IF StartsWith(t, <<Q>>)
    THEN LET l == ParseLiteral(Tail(t), <<>>)
         IN [ok |-> l.ok, v |-> StringPref(l.s), rest |-> l.rest]
    ELSE LET ds == NumberRun(t)
         IN IF WellFormedNumber(ds)
            THEN [ok |-> TRUE, v |-> IntPref(Atoi(ds)), rest |-> Drop(t, Len(ds))]
            ELSE [ok |-> FALSE, v |-> OtherPref, rest |-> <<>>]

NoStatement == [ok |-> FALSE, k |-> <<>>, v |-> OtherPref, rest |-> <<>>]

ParseStatement(t) ==
    LET open == <<"u", "s", "e", "r", "_", "p", "r", "e", "f", "(", Q>> IN
    IF ~StartsWith(t, open) THEN NoStatement
    ELSE LET key == ParseLiteral(Drop(t, Len(open)), <<>>) IN
         IF ~key.ok \/ ~StartsWith(key.rest, <<",", " ">>) THEN NoStatement
         ELSE LET val == ParseValue(Drop(key.rest, 2)) IN
              IF ~val.ok \/ ~StartsWith(val.rest, <<")", ";", NL>>) THEN NoStatement
              ELSE [ok |-> TRUE, k |-> key.s, v |-> val.v, rest |-> Drop(val.rest, 3)]

\* The statements of a whole file, as <<key, value>> pairs in file order.
RECURSIVE ParseUserJs(_)
ParseUserJs(t) ==
    IF t = <<>> THEN [ok |-> TRUE, entries |-> <<>>]
    ELSE LET st == ParseStatement(t) IN
         IF ~st.ok THEN [ok |-> FALSE, entries |-> <<>>]
         ELSE LET more == ParseUserJs(st.rest)
              IN [ok |-> more.ok, entries |-> <<<<st.k, st.v>>>> \o more.entries]

\* The lines of a text: its line breaks.
RECURSIVE Lines(_)
Lines(t) ==
    IF t = <<>> THEN 0
    ELSE (IF Head(t) = NL THEN 1 ELSE 0) + Lines(Tail(t))

SupportedOnly(p) == \A k \in DOMAIN p : Supported(p[k])

\* C20: for a preference map of booleans, integers and strings, whatever
\* its keys and its strings, user.js has one line per entry, every line is a
\* user_pref statement, and the statements read back are the entries of the
\* map, each once, with the original key and the original value.
C20_PrefsRoundTrip ==
    (profileStage \in {"prefs", "done"} /\ SupportedOnly(prefs)) =>
        LET back == ParseUserJs(fuser) IN
        /\ profileErr = ErrNil
        /\ Lines(fuser) = Cardinality(DOMAIN prefs)
        /\ back.ok
        /\ Len(back.entries) = Cardinality(DOMAIN prefs)
        /\ {back.entries[a] : a \in 1 .. Len(back.entries)}
               = {<<k, prefs[k]>> : k \in DOMAIN prefs}


(***************************************************************************)
(* Properties of createTempProfile.                                        *)
(***************************************************************************)
ProfileCalled == profileStage # "none"

Unsupported(p) == {k \in DOMAIN p : ~Supported(p[k])}

\* C21: when a value of the preference map is not a boolean, an integer or
\* a string, createTempProfile returns an error and the empty path; when the
\* call got as far as writing the preferences the error is 'create profile
\* failed: unexpected preference type: ' followed by the key of such a
\* value, and that error is returned for no other map.
C21_UnsupportedValueFails ==
    /\ (ProfileCalled /\ Unsupported(prefs) # {}) =>
          /\ profileErr # ErrNil
          /\ profileRet = ""
          /\ profileStage \in {"prefs", "done"} =>
                /\ profileStage = "prefs"
                /\ \E k \in Unsupported(prefs) :
                      profileErr = <<cpferr, "unexpected preference type: ">> \o k
    /\ profileStage = "prefs" => Unsupported(prefs) # {}

\* C21 witness: a map with a supported and an unsupported value, the
\* supported one written to user.js before the loop met the other.
C21_Witness ==
    /\ profileStage = "prefs"
    /\ Cardinality(DOMAIN prefs) >= 2
    /\ Lines(fuser) >= 1
    /\ profileRet = ""

\* The extension id is absent: install.rdf has an empty id, or the archive
\* has no install.rdf.
IdAbsent(es) == RdfIndex(es) = 0 \/ es[RdfIndex(es)].rdf = "empty"

\* C22: when the archive's install.rdf has an empty id, and when the
\* archive has no install.rdf, createTempProfile returns an error and the
\* empty path, and no entry of the archive has been written.
C22_NoExtensionIdFails ==
    (ProfileCalled /\ IdAbsent(xpi.entries)) =>
        /\ profileErr # ErrNil
        /\ profileRet = ""
        /\ extracted = <<>>
        /\ fuser = NoText

\* C22 witness: an archive with content and no install.rdf, and no fault of
\* the operating system: making the extension directory failed.
C22_Witness ==
    /\ ProfileCalled
    /\ xpi.fault = "none"
    /\ RdfIndex(xpi.entries) = 0 /\ Len(xpi.entries) = MaxEntries
    /\ profileStage = "MkdirExt"
    /\ profileErr = Err(cpferr, "<mkdir error>")


\* C23: when the server answers the POST of ExecuteScriptAsync with inner
\* status 28, the call returns an error that passes the type check of the
\* test, err.(CommandError), and whose StatusCode is 28.
C23_ScriptTimeoutIdentified ==
    (Done /\ decoded # NoResponse /\ sent[1].method = "POST"
          /\ InnerStatus(decoded) = 28) =>
        /\ result.err # NoErr
        /\ AssertCommandError(result.err)
        /\ result.err[2].StatusCode = 28


(***************************************************************************)
(* C24: once NewSession has returned a Session, no step changes its Id:    *)
(* not a command of the Session (Delete among them), of a WindowHandle or  *)
(* of a WebElement, whatever session id the server puts in its answers.    *)
(* Every handle refers to a Session with that Id, and every command puts   *)
(* that Id in its URL.                                                     *)
(***************************************************************************)
SessionIdKept == session # NoSession => session' = session

HandlesCarryId ==
    session # NoSession =>
        /\ \A h \in handles : h.Id = session.Id
        /\ caller \notin {"none", "NewSession"} => pathId = session.Id

C24_SessionIdImmutable == [][SessionIdKept]_vars /\ []HandlesCarryId

\* C24 witness: a handle made by a command of the session, then a command
\* on it (or Delete) whose answer carried another session id than the
\* Session's.
C24_Witness ==
    /\ session # NoSession /\ session.Id = <<"a">>
    /\ \E h \in handles : h.kind = "element"
    /\ caller = "none" /\ Done
    /\ sent[1].method \in {"POST", "DELETE"}
    /\ result.err = NoErr /\ result.sid # session.Id


(***************************************************************************)
(* C25: every error createTempProfile returns, those of writing an archive *)
(* entry included, starts with 'create profile failed: ', and every error  *)
(* ChromeDriver.Start returns for a failure up to and including the launch *)
(* of the child and the opening of its log file starts with 'chromedriver  *)
(* start failed: '.                                                        *)
(***************************************************************************)
ProfileErrorsPrefixed ==
    (ProfileCalled /\ profileErr # ErrNil) => profileErr[1] = cpferr

\* The errors of probePort come after the stage the claim speaks of.
ChromeStartErrorsPrefixed ==
    \A i \in Insts :
        (/\ IsChrome /\ StartReturned(i)
         /\ call[i].err \notin {ErrNil, ErrProbeTimeout, ErrConnClose}) =>
            call[i].err[1] = csferr

C25_StagePrefixes == ProfileErrorsPrefixed /\ ChromeStartErrorsPrefixed


(***************************************************************************)
(* C26, as stated: the base URL is set only after the readiness probe has  *)
(* succeeded; for both driver kinds a Start() that returns an error leaves *)
(* d.url as it was before the call.                                        *)
(***************************************************************************)
StartSucceeds(i) ==
    /\ call'[i].op = "Start" /\ call'[i].returned /\ call'[i].err = ErrNil
    /\ ~(call[i].op = "Start" /\ call[i].returned)

\* A step of a Start() call of instance i (SetUrl is not one).
InStart(i) == call'[i].op = "Start"

C26_UrlOnlyAfterProbe ==
    [][\A i \in Insts : (InStart(i) /\ url'[i] # url[i]) => StartSucceeds(i)]_vars

(***************************************************************************)
(* C26, amended: FirefoxDriver.Start sets d.url only when it returns nil,  *)
(* to "http://127.0.0.1:<Port>/hub"; ChromeDriver.Start sets d.url to the  *)
(* URL of d.Port before it launches the child, so only its two rejections  *)
(* (already running, log path not writable) leave d.url unchanged, and a   *)
(* Start() that fails later (launch, log file, probe) has set it already.  *)
(***************************************************************************)
ChromeRejections == {ErrChromeRunning, ErrChromeLogPath}

UrlSetStep(i) ==
    (InStart(i) /\ url'[i] # url[i]) =>
        IF target = "firefox"
        THEN StartSucceeds(i) /\ url'[i] = FirefoxUrl(Port[i])
        ELSE /\ pc[i] = "idle" /\ call'[i].op = "Start"
             /\ call'[i].err \notin ChromeRejections
             /\ url'[i] = ChromeUrl(Port[i])

UrlAfterStart(i) ==
    StartReturned(i) =>
        /\ (target = "firefox" /\ call[i].err = ErrNil) =>
              url[i] = FirefoxUrl(Port[i])
        /\ (IsChrome /\ call[i].err \notin ChromeRejections) =>
              url[i] = ChromeUrl(Port[i])

C26_UrlSetting ==
    /\ [][\A i \in Insts : UrlSetStep(i)]_vars
    /\ [](\A i \in Insts : UrlAfterStart(i))

\* C26 witness: a ChromeDriver.Start() has failed to launch the child, or has
\* given up probing, and d.url is set.
C26_Witness ==
    \E i \in Insts :
        /\ IsChrome /\ StartReturned(i)
        /\ call[i].err \in {ErrChromeLaunch, ErrProbeTimeout}
        /\ url[i] = ChromeUrl(Port[i])


(***************************************************************************)
(* C27: Stop() never waits for the two stdio-copy tasks started by         *)
(* Start(): a Stop() that signals the child and closes the log file        *)
(* returns with every copy task where it was, still running and with the   *)
(* unread output still in its pipe, and nothing of that output reaches the *)
(* log file afterwards.                                                    *)
(***************************************************************************)
StopReturns(i) ==
    /\ call'[i].op = "Stop" /\ call'[i].returned /\ call'[i].err = ErrNil
    /\ call'[i] # call[i] \/ procs' # procs \/ files' # files \/ cmd' # cmd

Unwritten(k, s) == ~tasks[k][s].ended /\ tasks[k][s].read < tasks[k][s].out

WrittenAfterClose(k, s) ==
    (cfg.logFile /\ files[k] = "closed") =>
        tasks'[k][s].written = tasks[k][s].written

C27_StopDoesNotWait ==
    /\ [][\A i \in Insts : StopReturns(i) => tasks' = tasks]_vars
    /\ [][\A k \in Ids, s \in Streams : WrittenAfterClose(k, s)]_vars

\* C27 witness: Stop() has returned and closed the log file while a copy task
\* of the child it signalled is running with output left in its pipe.
C27_Witness ==
    \E i \in Insts, s \in Streams :
        /\ StopReturned(i) /\ call[i].err = ErrNil
        /\ call[i].closed # Nil /\ files[call[i].closed] = "closed"
        /\ call[i].signalled # Nil /\ CopyStarted(call[i].signalled)
        /\ Unwritten(call[i].signalled, s)


(***************************************************************************)
(* C28, as stated: a single do() call sends at most two HTTP requests.     *)
(***************************************************************************)
C28_AtMostTwoRequests == Len(sent) <= 2

(***************************************************************************)
(* C28, amended: doInternal calls itself at most once and sends at most    *)
(* two requests of its own, the follow-up GET being one it never follows;  *)
(* a 302/303 answer to a GET is followed by http.Client.Do, up to its      *)
(* limit, so a do() call sends at most one request more than that limit,   *)
(* and against a server that answers it always returns.                    *)
(***************************************************************************)
SentBy(by) == Cardinality({k \in 1 .. Len(sent) : sent[k].by = by})

RequestsBounded ==
    /\ depth <= 1
    /\ SentBy("transport") <= 1 + depth
    /\ hops <= ClientMaxRequests
    /\ Len(sent) <= 1 + ClientMaxRequests

\* doInternal, called for the follow-up GET, sends nothing more itself.
FollowUpNotFollowed ==
    (tpc = "wait" /\ depth = 1) =>
        /\ depth' = 1
        /\ \A k \in (Len(sent) + 1) .. Len(sent') : sent'[k].by = "client"

C28_RequestsBounded ==
    /\ []RequestsBounded
    /\ [][FollowUpNotFollowed]_vars
    /\ (tpc = "wait") ~> (tpc = "done")

\* C28 witness: do() has returned after three requests: the POST, the GET
\* doInternal sent after the redirect, and a GET http.Client.Do sent because
\* the first GET was answered with a redirect too.
C28_Witness ==
    /\ tpc = "done" /\ Len(sent) = 3
    /\ sent[1].method = "POST"
    /\ sent[2] = Request("GET", "location", "transport")
    /\ sent[3] = Request("GET", "location", "client")


(***************************************************************************)
(* C29: with Port = 0, the port FirefoxDriver.Start goes on with is the    *)
(* lowest port from 7055 on which its test listener could be opened during *)
(* the scan, and Start never goes on with a port on which no test listener *)
(* could be opened.                                                        *)
(***************************************************************************)
\* A step of the lock loop that took the lock, scanned, and went on to make
\* the profile.
ScanProceeds(i) ==
    FirefoxLockStep(i) /\ lockHolder = Free /\ starts' # starts

C29_SelectedPortWasFree ==
    [][\A i \in Insts :
          ScanProceeds(i) =>
             /\ Port'[i] \in ScanAvailable(bound)
             /\ \A p \in ScanAvailable(bound) : Port'[i] <= p]_vars


(***************************************************************************)
(* C30: the lock listener on port 7054 that FirefoxDriver.Start acquires   *)
(* is held until Start returns and released on every return path: a call   *)
(* that took the lock and has not returned holds it, at most one call is   *)
(* between taking the lock and returning, the lock is taken only when      *)
(* nobody holds it, and no call that has returned holds it.                *)
(***************************************************************************)
\* Start() of instance i has taken the lock and has not returned.
InsideLock(i) == call[i].op = "Start" /\ ~call[i].returned /\ call[i].locked

LockHeldUntilReturn ==
    \A i \in Insts :
        /\ InsideLock(i) => lockHolder = i
        /\ lockHolder = i => InsideLock(i)
        /\ \A j \in Insts : (InsideLock(i) /\ InsideLock(j)) => i = j

\* The lock is taken from nobody, and every return of the call that holds it
\* gives it up, whatever the call returns.
LockStep(i) ==
    /\ (lockHolder # i /\ lockHolder' = i) => lockHolder = Free
    /\ (FirefoxLockStep(i) /\ lockHolder = Free /\ call'[i].returned) =>
          lockHolder' = Free
    /\ (InsideLock(i) /\ call'[i].returned) => lockHolder' = Free

C30_LockReleasedOnReturn ==
    /\ []LockHeldUntilReturn
    /\ [][\A i \in Insts : LockStep(i)]_vars

\* C30 witness: a Start() that took the lock has given up probing and
\* returned, and the other instance's Start(), which waited for the lock,
\* holds it now.
C30_Witness ==
    \E i, j \in Insts :
        /\ i # j
        /\ StartReturned(i) /\ call[i].locked /\ call[i].err = ErrProbeTimeout
        /\ InsideLock(j) /\ lockHolder = j /\ pc[j] = "probe"


(***************************************************************************)
(* C31: when createTempProfile fails, FirefoxDriver.Start returns its      *)
(* error at once: no browser process is made or launched and d.cmd is not  *)
(* touched, so a driver that was not running stays not running and a       *)
(* following Stop() returns the 'not running' error.                       *)
(***************************************************************************)
\* A step of Start() in which createTempProfile was called and returned no
\* path.
ProfileFails(i) ==
    /\ target = "firefox" /\ ActiveInsts = {i} /\ pc[i] \in {"idle", "lock"}
    /\ starts' # starts /\ profilePath'[i] = Nil

StopAfterFailedProfile(i) ==
    (/\ StartReturned(i) /\ call[i].err \in ProfileErrors /\ cmd[i] = Nil
     /\ FirefoxStop(i)) =>
        /\ call'[i].returned /\ call'[i].err = ErrFirefoxNotRunning
        /\ call'[i].signalled = Nil
        /\ procs' = procs

C31_ProfileFailureStopsStart ==
    [][\A i \in Insts :
          /\ ProfileFails(i) =>
                /\ call'[i].returned /\ call'[i].err \in ProfileErrors
                /\ call'[i].launched = Nil
                /\ procs' = procs
                /\ cmd' = cmd
                /\ pc'[i] = "idle"
          /\ StopAfterFailedProfile(i)]_vars

\* C31 witness: Start() failed in createTempProfile on a driver that was not
\* running, and the Stop() that followed returned 'not running'.
C31_Witness ==
    \E i \in Insts :
        /\ target = "firefox" /\ StopReturned(i)
        /\ call[i].err = ErrFirefoxNotRunning
        /\ starts > 0 /\ cmd[i] = Nil /\ profilePath[i] = Nil
        /\ \A k \in Ids : procs[k] = NoProc


(***************************************************************************)
(* C32: FirefoxDriver.Stop() on a running driver removes the temporary     *)
(* profile directory that the Start() of the running child created if and  *)
(* only if DeleteProfileOnClose is true; with the flag false every profile *)
(* directory is left as it is; either way d.cmd ends nil.                  *)
(***************************************************************************)
\* The profile directory Start() made for the child d.cmd refers to: both
\* carry the id of that call.
ProfileOfChild(i) == cmd[i]

C32_StopRemovesProfile ==
    [][\A i \in Insts :
          (target = "firefox" /\ Running(i) /\ FirefoxStop(i)) =>
             /\ cmd'[i] = Nil
             /\ IF cfg.deleteProfile
                THEN /\ ~dirs'[ProfileOfChild(i)].exists
                     /\ \A k \in Ids \ {ProfileOfChild(i)} : dirs'[k] = dirs[k]
                ELSE dirs' = dirs]_vars


(***************************************************************************)
(* C33: the readiness probe tests only that something accepts a connection *)
(* on 127.0.0.1:Port.  An attempt made while anything listens there ends   *)
(* the probe at once and Start() returns nil (or the error of closing the  *)
(* connection), whoever the listener is: also a process that is not the    *)
(* child Start launched.                                                   *)
(***************************************************************************)
ProbeAccepts(i) ==
    (pc[i] = "probe" /\ bound[Port[i]] # Free /\ ProbeStep(i)) =>
        /\ call'[i].returned /\ call'[i].connected
        /\ call'[i].err \in {ErrNil, ErrConnClose}
        /\ call'[i].waited = elapsed[i]

C33_ProbeAcceptsAnyListener == [][\A i \in Insts : ProbeAccepts(i)]_vars

\* C33 witness: Start() has returned nil on a port another program listens
\* on; the child it launched is alive and listens nowhere.
C33_Witness ==
    \E i \in Insts :
        /\ StartReturned(i) /\ call[i].err = ErrNil /\ call[i].connected
        /\ bound[Port[i]] = External
        /\ procs[call[i].launched].state = "live"
        /\ \A p \in AllPorts : bound[p] # call[i].launched


(***************************************************************************)
(* C34: after a FirefoxDriver.Start that returned nil, the port in the     *)
(* profile's preference webdriver_firefox_port, the port the probe dialled,*)
(* the port in the base URL http://127.0.0.1:<port>/hub and d.Port are the *)
(* same number.                                                            *)
(***************************************************************************)
C34_OnePortEverywhere ==
    \A i \in Insts :
        (target = "firefox" /\ StartReturned(i) /\ call[i].err = ErrNil) =>
            /\ Port[i] # 0
            /\ call[i].profile # Nil /\ dirs[call[i].profile].port = Port[i]
            /\ call[i].probed = Port[i]
            /\ url[i] = FirefoxUrl(Port[i])

\* C34 witness: a Start() with Port = 0 has selected a port above the base
\* and returned nil.
C34_Witness ==
    \E i \in Insts :
        /\ target = "firefox" /\ StartReturned(i) /\ call[i].err = ErrNil
        /\ call[i].locked /\ Port[i] = FirefoxBasePort + 1
        /\ dirs[call[i].profile].port = FirefoxBasePort + 1
        /\ url[i] = FirefoxUrl(FirefoxBasePort + 1)


(***************************************************************************)
(* C35: no step of Start() leaves a live child that the driver's d.cmd     *)
(* does not refer to: the child a Start() launches is the one d.cmd refers *)
(* to afterwards, and a live child d.cmd referred to before a Start() is   *)
(* still referred to after it.                                             *)
(***************************************************************************)
StartStep(i) ==
    ChromeStart(i) \/ ChromeStartRB(i) \/ FirefoxStart(i) \/ FirefoxLockStep(i)
        \/ ProbeStep(i)

\* Child k is alive after the step, and it was launched in the step or was
\* the child of instance i before it.
OwnLiveChild(i, k) ==
    /\ procs'[k].state = "live"
    /\ procs[k].state = "none" \/ cmd[i] = k

C35_LiveChildReferenced ==
    [][\A i \in Insts : \A k \in Ids :
          (StartStep(i) /\ OwnLiveChild(i, k)) => cmd'[i] = k]_vars


(***************************************************************************)
(* C36, as stated: do() returns without error only if the HTTP status is   *)
(* below 400 and the body decoded as an envelope whose inner status is 0;  *)
(* at no HTTP status is a body that is not valid JSON a success.           *)
(***************************************************************************)
Succeeded == Done /\ decoded # NoResponse /\ result.err = NoErr

C36_SuccessOnlyWithEnvelope ==
    Succeeded =>
        /\ decoded.code < 400
        /\ ~DecodeEnvelope(decoded.body).err
        /\ DecodeEnvelope(decoded.body).jr.Status = 0

(***************************************************************************)
(* C36, amended: do() returns without error only if the HTTP status is     *)
(* below 400 and the inner status doInternal decoded is 0, and at HTTP 200 *)
(* only if json.Unmarshal accepted the body.  At every other status below  *)
(* 400 the error of json.Unmarshal is dropped: a body that is not valid    *)
(* JSON gives success with the empty session id and no value.              *)
(***************************************************************************)
C36_SuccessBelow400 ==
    /\ Succeeded =>
          /\ decoded.code < 400
          /\ DecodeEnvelope(decoded.body).jr.Status = 0
          /\ decoded.code = 200 => ~DecodeEnvelope(decoded.body).err
    /\ (/\ Done /\ decoded # NoResponse
        /\ decoded.code < 400 /\ decoded.code # 200
        /\ decoded.body.json = "invalid") =>
          result = Result(<<>>, NilValue, NoErr)

\* C36 witness: do() has returned success with nothing for HTTP 204 and a
\* body that is no JSON.
C36_Witness ==
    /\ Done /\ decoded # NoResponse
    /\ decoded.code = 204 /\ decoded.body.json = "invalid"
    /\ result = Result(<<>>, NilValue, NoErr)


(***************************************************************************)
(* C37: Stop() returns an ordinary value, nil or the 'not running' error,  *)
(* in every state Start and Stop calls can lead to: the program never dies *)
(* in Stop() of signalling a command whose process was never started.      *)
(***************************************************************************)
C37_StopNeverCrashes ==
    /\ ~crashed
    /\ \A i \in Insts :
          call[i].op = "Stop" =>
             /\ call[i].returned
             /\ call[i].err \in {ErrNil, ErrChromeNotRunning, ErrFirefoxNotRunning}


(***************************************************************************)
(* C38: when Start() fails because the probe times out, the child it       *)
(* launched is not signalled and d.cmd keeps referring to it; the Stop()   *)
(* that follows returns nil and signals that child, and a                  *)
(* ChromeDriver.Start() that follows without Stop() is rejected as already *)
(* running.                                                                *)
(***************************************************************************)
ProbeTimedOut(i) == StartReturned(i) /\ call[i].err = ErrProbeTimeout

ProbeTimeoutStep(i) ==
    (pc[i] = "probe" /\ call'[i].returned /\ call'[i].err = ErrProbeTimeout) =>
        /\ procs' = procs
        /\ call'[i].launched # Nil /\ cmd'[i] = call'[i].launched
        /\ procs[call'[i].launched].state \notin {"none", "unstarted"}

AfterProbeTimeout(i) ==
    /\ (ProbeTimedOut(i) /\ StopCall(i)) =>
          /\ call'[i].returned /\ call'[i].err = ErrNil
          /\ call'[i].signalled = call[i].launched
          /\ \E sigOk \in BOOLEAN :
                procs'[call[i].launched] = Signalled(procs[call[i].launched], sigOk)
          /\ ~crashed'
    /\ (ProbeTimedOut(i) /\ ChromeStartCall(i)) =>
          /\ call'[i].returned /\ call'[i].err = ErrChromeRunning
          /\ procs' = procs /\ cmd' = cmd

C38_ProbeTimeoutLeavesRunning ==
    [][\A i \in Insts : ProbeTimeoutStep(i) /\ AfterProbeTimeout(i)]_vars

\* C38 witness: a Start() has returned the timeout error of the probe; the
\* child it launched is alive, has not bound the port, and d.cmd refers to it.
C38_Witness ==
    \E i \in Insts :
        /\ ProbeTimedOut(i) /\ call[i].waited >= StartTimeout
        /\ cmd[i] = call[i].launched
        /\ procs[cmd[i]].state = "live"
        /\ \A p \in AllPorts : bound[p] # cmd[i]

====
